---- MODULE Spec2Model ----
(***************************************************************************)
(* CMakeTools: the CMake parser (api/cmake_ast.py) and the formatter       *)
(* (api/formatter.py).                                                     *)
(*                                                                         *)
(* A source text is a sequence of one-character strings.  Offsets are      *)
(* 0-based as in Python: the character at offset k of s is s[k + 1].       *)
(* A Python value is a record with a field cls (its class); an exception  *)
(* that escapes a call is the value the call yields, with cls the          *)
(* exception's class.                                                      *)
(***************************************************************************)
EXTENDS Integers, Sequences, FiniteSets, TLC

VARIABLES
    source,      \* the text handed to CMakeParser / CMakeFormatter
    phase,       \* the last operation applied to it
    tree,        \* what CMakeParser(source).parse() gave
    text,        \* what File.text gave
    formatted,   \* what format_source / format_file / format_arguments gave
    reformatted, \* what format_source gave on the formatted text
    index,       \* the child of the File whose arguments format_arguments got
    offset,      \* the offset handed to rowcol, or self.offset before eat_match
    pos,         \* what rowcol gave
    pat,         \* the pattern handed to eat_match
    match,       \* what eat_match gave
    cursor,      \* self.offset after eat_match
    row,         \* the row (line) handed to Script.help / Script.get_scope
    col,         \* the column handed to it
    answer,      \* what Script.help / Script.get_scope gave
    candidates,  \* the names of what Script.get_candidates gave
    lock,        \* the thread holding PIPE_LOCK / call_lock, 0 when free
    pc,          \* where each thread is in the code it runs
    ran,         \* the threads that have entered the body of a gated function
    blocked,     \* the threads that have waited for the lock
    met,         \* for each thread, the threads whose call overlapped its call
    slot,        \* EventListener._completion_result
    got,         \* the local variable result of on_query_completions
    delivered,   \* the results returned to the editor in a CompletionList
    lost,        \* the results overwritten with None without being returned
    pending,     \* the on_query_completions calls the editor has still to make
    event        \* BUILD_EVENT is set

\* the state of a parser or formatter run, of a script query, of the threads
parserVars ==
    <<tree, text, formatted, reformatted, index, offset, pos, pat, match,
      cursor>>
queryVars == <<row, col, answer, candidates>>
threadVars ==
    <<lock, pc, ran, blocked, met, slot, got, delivered, lost, pending, event>>

vars == <<source, phase, parserVars, queryVars, threadVars>>

----------------------------------------------------------------------------
(* Bounds of the model *)

\* longest source text enumerated over Alphabet
MaxLen == 5

\* longest text enumerated over WideAlphabet
MaxWide == 3

\* longest body of a bracket or of a quoted argument enumerated over
\* BodyAlphabet
MaxBody == 2

\* the most '=' of an enumerated bracket opener or closer
MaxEq == 2

\* the number of threads that call a gated function
MaxThreads == 3

\* the number of completion queries that the editor makes of its own accord
MaxCalls == 2

\* longest script text enumerated over QueryAlphabet
MaxQuery == 4

\* the rows handed to a script query run from -(MaxRow + 1) to MaxRow
MaxRow == 2

----------------------------------------------------------------------------
(* Characters *)

Lower == {"a", "b", "c", "d", "e", "f", "g", "h", "i", "j", "k", "l", "m",
          "n", "o", "p", "q", "r", "s", "t", "u", "v", "w", "x", "y", "z"}
Upper == {"A", "B", "C", "D", "E", "F", "G", "H", "I", "J", "K", "L", "M",
          "N", "O", "P", "Q", "R", "S", "T", "U", "V", "W", "X", "Y", "Z"}
Digit == {"0", "1", "2", "3", "4", "5", "6", "7", "8", "9"}

\* [A-Za-z_] and [A-Za-z0-9_]
IdentStart == Lower \cup Upper \cup {"_"}
IdentChar == IdentStart \cup Digit

\* [ \t]
SpaceChars == {" ", "\t"}

\* re.escape('#[]()="\\') inside a character class
Punctuation == {"#", "[", "]", "(", ")", "=", "\"", "\\"}

\* the class of  \\[{punctuation}{space}[\r\n]  : it closes at the first ']',
\* so it holds '[' once more and \r, \n, and a literal ']' must follow it
EscapedClass == Punctuation \cup SpaceChars \cup {"[", "\r", "\n"}

\* A character of the model is a string of length one that holds a code
\* point of U+0000..U+00FF.  The classes below are those of Python's str
\* over these code points; the control characters stand in the text as
\* themselves.

\* the line boundaries of str.splitlines: \n, \r, \v, \f, \x1c, \x1d,
\* \x1e, \x85
LineBreaks == {"\n", "\r", "", "\f", "", "", "", ""}

\* what str.rstrip() strips, the characters with str.isspace(): \t, \n,
\* \v, \f, \r, \x1c, \x1d, \x1e, \x1f, space, \x85, \xa0
Whitespace ==
    {" ", "\t", "\n", "\r", "", "\f", "", "", "", "",
     "", " "}

----------------------------------------------------------------------------
(* Python values *)

None == [cls |-> "None"]
Unset == [cls |-> "Unset"]
Str(s) == [cls |-> "str", val |-> s]
Exception(c, m) == [cls |-> c, msg |-> m]

Token(p, k, t) == [cls |-> "Token", kind |-> k, pos |-> p, text |-> t]
Leaf(c, k, toks) == [cls |-> c, kind |-> k, tokens |-> toks]
Node(c, k, ch) == [cls |-> c, kind |-> k, children |-> ch]
\* a plain list, as get_arguments builds it
List(items) == [cls |-> "list", items |-> items]
GroupedArguments(items) ==
    [cls |-> "GroupedArguments", kind |-> "grouped_arguments", items |-> items]
BracketTokens(items) == [cls |-> "BracketTokens", items |-> items]

ListClasses == {"list", "GroupedArguments", "BracketTokens"}
ArgumentClasses == {"BracketArgument", "QuotedArgument", "UnquotedArgument"}
CommentClasses == {"BracketComment", "LineComment"}
LeafClasses == ArgumentClasses \cup CommentClasses
NodeClasses == {"File", "CommandInvocation"}
ExceptionClasses == {"SyntaxError", "IndexError", "AttributeError",
                     "TypeError", "ValueError"}

IsException(v) == v.cls \in ExceptionClasses

\* bool(v): a list is true when it is not empty, any other object is true
Truthy(v) ==
    IF v.cls = "None" THEN FALSE
    ELSE IF v.cls \in ListClasses THEN v.items # <<>>
    ELSE TRUE

----------------------------------------------------------------------------
(* Sequences of characters *)

\* v bound to the parameter of Op: a local variable assigned once
Let(v, Op(_)) == Op(v)

Min(a, b) == IF a < b THEN a ELSE b

\* max(S) of a set of numbers that is not empty
Max(S) == CHOOSE m \in S : \A n \in S : n <= m

\* s[a:b] for 0 <= a
Slice(s, a, b) == SubSeq(s, a + 1, Min(b, Len(s)))

RECURSIVE Concat(_)
\* "".join(parts)
Concat(parts) ==
    IF parts = <<>> THEN <<>> ELSE Head(parts) \o Concat(Tail(parts))

RECURSIVE RunLen(_, _, _)
\* the number of characters of s from offset off on that all lie in cs
RunLen(s, off, cs) ==
    IF off < Len(s) /\ s[off + 1] \in cs THEN 1 + RunLen(s, off + 1, cs) ELSE 0

RECURSIVE RunLenNot(_, _, _)
\* the number of characters of s from offset off on that all lie outside cs
RunLenNot(s, off, cs) ==
    IF off < Len(s) /\ s[off + 1] \notin cs
    THEN 1 + RunLenNot(s, off + 1, cs) ELSE 0

CharAt(s, off) == IF off < Len(s) THEN s[off + 1] ELSE ""

RECURSIVE splitlines_from(_, _, _)
\* the lines of s from offset off on, each line starting at offset start
splitlines_from(s, start, keepends) ==
    IF start >= Len(s) THEN <<>>
    ELSE Let(start + RunLenNot(s, start, LineBreaks), LAMBDA end :
         Let(IF end >= Len(s) THEN 0
             ELSE IF s[end + 1] = "\r" /\ CharAt(s, end + 1) = "\n" THEN 2
             ELSE 1, LAMBDA brk :
             <<Slice(s, start, end + (IF keepends THEN brk ELSE 0))>>
             \o splitlines_from(s, end + brk, keepends)))

\* str.splitlines(keepends)
splitlines(s, keepends) == splitlines_from(s, 0, keepends)

RECURSIVE rstrip(_)
\* str.rstrip()
rstrip(s) ==
    IF s # <<>> /\ s[Len(s)] \in Whitespace
    THEN rstrip(SubSeq(s, 1, Len(s) - 1)) ELSE s

----------------------------------------------------------------------------
(* Row/column locator *)

TextPos(r, c) == [cls |-> "TextPos", row |-> r, col |-> c]

\* rowcol(text, offset): lines[linenum - 1] of an empty list is an IndexError
rowcol(txt, off) ==
    Let(splitlines(Slice(txt, 0, off), TRUE), LAMBDA lines :
        IF Len(lines) = 0 THEN Exception("IndexError", "list index out of range")
        ELSE TextPos(Len(lines), Len(lines[Len(lines)])))

----------------------------------------------------------------------------
(* Lexeme matcher *)

\* the length of re.match(pattern, s[off:]), or -1 when there is no match;
\* a pattern is named by the terminal it is used for
MatchLen(pattern, s, off) ==
    CASE pattern = "ident" ->        \* [A-Za-z_][A-Za-z0-9_]*
           IF CharAt(s, off) \in IdentStart
           THEN 1 + RunLen(s, off + 1, IdentChar) ELSE -1
      [] pattern = "space" ->        \* [ \t]+
           IF CharAt(s, off) \in SpaceChars THEN RunLen(s, off, SpaceChars) ELSE -1
      [] pattern = "newline" ->      \* \n
           IF CharAt(s, off) = "\n" THEN 1 ELSE -1
      [] pattern = "eof" ->          \* $ : the end, or just before a final \n
           IF off >= Len(s) \/ (off = Len(s) - 1 /\ s[Len(s)] = "\n") THEN 0 ELSE -1
      [] pattern = "lparen" -> IF CharAt(s, off) = "(" THEN 1 ELSE -1
      [] pattern = "rparen" -> IF CharAt(s, off) = ")" THEN 1 ELSE -1
      [] pattern = "quote" -> IF CharAt(s, off) = "\"" THEN 1 ELSE -1
      [] pattern = "comment_mark" -> IF CharAt(s, off) = "#" THEN 1 ELSE -1
      [] pattern = "lbracket" ->     \* \[=*\[
           IF CharAt(s, off) = "["
              /\ CharAt(s, off + 1 + RunLen(s, off + 1, {"="})) = "["
           THEN 2 + RunLen(s, off + 1, {"="}) ELSE -1
      [] pattern = "rbracket" ->     \* \]=*\]
           IF CharAt(s, off) = "]"
              /\ CharAt(s, off + 1 + RunLen(s, off + 1, {"="})) = "]"
           THEN 2 + RunLen(s, off + 1, {"="}) ELSE -1
      [] pattern = "bracket_text" -> \* (?:[^\]]|\\\])* : '\' is taken by [^\]]
           RunLenNot(s, off, {"]"})
      [] pattern = "line_text" ->    \* .*
           RunLenNot(s, off, {"\n"})

RECURSIVE QuotedTextLen_NoEscape(_, _)
\* [^"]+ from offset off: the text ends at the first quote, escaped or not
QuotedTextLen_NoEscape(s, off) ==
    IF off < Len(s) /\ s[off + 1] # "\""
    THEN 1 + QuotedTextLen_NoEscape(s, off + 1)
    ELSE 0

RECURSIVE QuotedTextLen(_, _)
\* (?:\\"|[^"])+ from offset off: the pair \" first, else one character
\* that is not a quote
QuotedTextLen(s, off) ==
    IF CharAt(s, off) = "\\" /\ CharAt(s, off + 1) = "\""
    THEN 2 + QuotedTextLen(s, off + 2)
    ELSE IF off < Len(s) /\ s[off + 1] # "\""
         THEN 1 + QuotedTextLen(s, off + 1)
         ELSE 0

RECURSIVE UnquotedTextLen(_, _)
\* (?:[^{punctuation}{space}]|{escaped}|{not_implemented})+ from offset off:
\* one character outside the punctuation and [ \t] (a newline is such a
\* character), else a backslash, a character of EscapedClass and a ']'.
\* The third alternative is the literal text ${}<>;: whose first character
\* the first alternative takes, so it never decides a match.
UnquotedTextLen(s, off) ==
    IF off < Len(s) /\ s[off + 1] \notin (Punctuation \cup SpaceChars)
    THEN 1 + UnquotedTextLen(s, off + 1)
    ELSE IF CharAt(s, off) = "\\" /\ CharAt(s, off + 1) \in EscapedClass
            /\ CharAt(s, off + 2) = "]"
         THEN 3 + UnquotedTextLen(s, off + 3)
         ELSE 0

\* MatchLen with the two patterns that need one match at least
PatternLen(pattern, s, off) ==
    CASE pattern = "quoted_text" ->
           IF QuotedTextLen(s, off) > 0 THEN QuotedTextLen(s, off) ELSE -1
      [] pattern = "unquoted_text" ->
           IF UnquotedTextLen(s, off) > 0 THEN UnquotedTextLen(s, off) ELSE -1
      [] OTHER -> MatchLen(pattern, s, off)

\* the terminals eat_match is called for
Patterns ==
    {"ident", "space", "newline", "eof", "lparen", "rparen", "quote",
     "comment_mark", "lbracket", "rbracket", "bracket_text", "line_text",
     "quoted_text", "unquoted_text"}

RECURSIVE SearchFrom(_, _, _)
\* the first offset from j on where the pattern matches, -1 when there is none
SearchFrom(pattern, s, j) ==
    IF PatternLen(pattern, s, j) >= 0 THEN j
    ELSE IF j >= Len(s) THEN -1
    ELSE SearchFrom(pattern, s, j + 1)

\* eat_match using re.search: the pattern is found further on in the text
eat_match_Search(s, off, pattern) ==
    Let(SearchFrom(pattern, s, off), LAMBDA j :
        IF j >= 0
        THEN [matched |-> TRUE, pos |-> off,
              text |-> Slice(s, j, j + PatternLen(pattern, s, j)),
              off |-> j + PatternLen(pattern, s, j)]
        ELSE [matched |-> FALSE, pos |-> off, text |-> <<>>, off |-> off])

\* MatchResult(start, text, match)
MatchResult(p, t) == [cls |-> "MatchResult", pos |-> p, text |-> t]

\* CMakeParser.eat_match with self.offset = off: the MatchResult and the
\* new self.offset
eat_match(s, off, pattern) ==
    Let(PatternLen(pattern, s, off), LAMBDA n :
        IF n >= 0
        THEN [matched |-> TRUE, pos |-> off, text |-> Slice(s, off, off + n),
              off |-> off + n]
        ELSE [matched |-> FALSE, pos |-> off, text |-> <<>>, off |-> off])

----------------------------------------------------------------------------
(* CMake grammar parser.  A production yields st = "node" with the value  *)
(* and the new offset, st = "none" for None, or st = "raise" with the      *)
(* exception.                                                              *)

Ret(v, off) == [st |-> "node", val |-> v, off |-> off]
RetNone(off) == [st |-> "none", val |-> None, off |-> off]
Raised(e, off) == [st |-> "raise", val |-> e, off |-> off]

\* pos = rowcol(self.source, self.offset); raise SyntaxError(f"{msg} {pos}")
RaiseSyntaxError(msg, s, off) ==
    Let(rowcol(s, off), LAMBDA p :
        IF IsException(p) THEN Raised(p, off)
        ELSE Raised([cls |-> "SyntaxError", msg |-> msg, row |-> p.row,
                     col |-> p.col], off))

get_eof(s, off) ==
    Let(eat_match(s, off, "eof"), LAMBDA m :
        IF m.matched THEN Ret(Token(m.pos, "eof", m.text), m.off)
        ELSE RetNone(off))

get_space(s, off) ==
    Let(eat_match(s, off, "space"), LAMBDA m :
        IF m.matched THEN Ret(Token(m.pos, "space", m.text), m.off)
        ELSE RetNone(off))

get_newline(s, off) ==
    Let(eat_match(s, off, "newline"), LAMBDA m :
        IF m.matched THEN Ret(Token(m.pos, "newline", m.text), m.off)
        ELSE RetNone(off))

\* get_bracket giving None instead of raising when the closer is absent
RequireRBracket_None(s, off) == RetNone(off)

\* raise SyntaxError(f"require closing ']=*]' at {pos}")
RequireRBracket(s, off) == RaiseSyntaxError("require closing ']=*]'", s, off)

\* get_bracket keeping the Text token only when its text is not empty
get_bracket_NoEmptyText(s, off) ==
    Let(eat_match(s, off, "lbracket"), LAMBDA lb :
        IF ~lb.matched THEN RetNone(off)
        ELSE
    Let(eat_match(s, lb.off, "bracket_text"), LAMBDA tx :
    Let(eat_match(s, tx.off, "rbracket"), LAMBDA rb :
        IF ~rb.matched THEN RequireRBracket(s, tx.off)
        ELSE Ret(BracketTokens(<<Token(lb.pos, "lbracket", lb.text)>>
                               \o (IF tx.matched /\ tx.text # <<>>
                                   THEN <<Token(tx.pos, "text", tx.text)>>
                                   ELSE <<>>)
                               \o <<Token(rb.pos, "rbracket", rb.text)>>),
                 rb.off))))

get_bracket(s, off) ==
    Let(eat_match(s, off, "lbracket"), LAMBDA lb :
        IF ~lb.matched THEN RetNone(off)
        ELSE
    Let(eat_match(s, lb.off, "bracket_text"), LAMBDA tx :
    Let(eat_match(s, tx.off, "rbracket"), LAMBDA rb :
        IF ~rb.matched THEN RequireRBracket(s, tx.off)
        ELSE Ret(BracketTokens(<<Token(lb.pos, "lbracket", lb.text)>>
                               \o (IF tx.matched
                                   THEN <<Token(tx.pos, "text", tx.text)>>
                                   ELSE <<>>)
                               \o <<Token(rb.pos, "rbracket", rb.text)>>),
                 rb.off))))

get_bracket_argument(s, off) ==
    Let(get_bracket(s, off), LAMBDA b :
        IF b.st = "node" /\ Truthy(b.val)
        THEN Ret(Leaf("BracketArgument", "bracket_argument", b.val.items), b.off)
        ELSE IF b.st = "raise" THEN b ELSE RetNone(b.off))

\* raise SyntaxError(f"require closing '\"' at {pos}")
RequireQuote(s, off) == RaiseSyntaxError("require closing '\"'", s, off)

get_quoted_argument(s, off) ==
    Let(eat_match(s, off, "quote"), LAMBDA q1 :
        IF ~q1.matched THEN RetNone(off)
        ELSE
    Let(eat_match(s, q1.off, "quoted_text"), LAMBDA tx :
    Let(eat_match(s, tx.off, "quote"), LAMBDA q2 :
        IF ~q2.matched THEN RequireQuote(s, tx.off)
        ELSE Ret(Leaf("QuotedArgument", "quoted_argument",
                      <<Token(q1.pos, "quote", q1.text)>>
                      \o (IF tx.matched
                          THEN <<Token(tx.pos, "text", tx.text)>> ELSE <<>>)
                      \o <<Token(q2.pos, "quote", q2.text)>>),
                 q2.off))))

get_unquoted_argument(s, off) ==
    Let(eat_match(s, off, "unquoted_text"), LAMBDA m :
        IF m.matched
        THEN Ret(Leaf("UnquotedArgument", "unquoted_argument",
                      <<Token(m.pos, "text", m.text)>>), m.off)
        ELSE RetNone(off))

get_comment(s, off) ==
    Let(eat_match(s, off, "comment_mark"), LAMBDA cm :
        IF ~cm.matched THEN RetNone(off)
        ELSE
    Let(get_bracket(s, cm.off), LAMBDA b :
        IF b.st = "raise" THEN b
        ELSE IF b.st = "node" /\ Truthy(b.val)
        THEN Ret(Leaf("BracketComment", "bracket_comment",
                      <<Token(cm.pos, "commentmark", cm.text)>> \o b.val.items),
                 b.off)
        ELSE
    Let(eat_match(s, cm.off, "line_text"), LAMBDA tx :
        Ret(Leaf("LineComment", "line_comment",
                 <<Token(cm.pos, "commentmark", cm.text),
                   Token(tx.pos, "text", tx.text)>>), tx.off))))

\* raise SyntaxError(f"require closing ')' at {pos}") of a grouped argument
GroupRequireRParen(s, off) == RaiseSyntaxError("require closing ')'", s, off)

RECURSIVE get_arguments(_, _), get_argument_from(_, _, _),
          get_grouped_arguments(_, _)

\* the productions of get_argument, in the order they are tried
ArgumentProductions ==
    <<"grouped_arguments", "bracket_argument", "quoted_argument",
      "unquoted_argument", "space", "newline", "comment">>

ArgumentProduction(name, s, off) ==
    CASE name = "grouped_arguments" -> get_grouped_arguments(s, off)
      [] name = "bracket_argument" -> get_bracket_argument(s, off)
      [] name = "quoted_argument" -> get_quoted_argument(s, off)
      [] name = "unquoted_argument" -> get_unquoted_argument(s, off)
      [] name = "space" -> get_space(s, off)
      [] name = "newline" -> get_newline(s, off)
      [] name = "comment" -> get_comment(s, off)

\* the loop of get_argument from its i-th production on: the first result
\* that is true; a raise on the way escapes; None when all give None
get_argument_from(i, s, off) ==
    IF i > Len(ArgumentProductions) THEN RetNone(off)
    ELSE Let(ArgumentProduction(ArgumentProductions[i], s, off), LAMBDA r :
             IF r.st = "raise" THEN r
             ELSE IF r.st = "node" /\ Truthy(r.val) THEN r
             ELSE get_argument_from(i + 1, s, r.off))

get_argument(s, off) == get_argument_from(1, s, off)

\* while argument := self.get_argument(): arguments.append(argument)
get_arguments(s, off) ==
    Let(get_argument(s, off), LAMBDA r :
        IF r.st = "raise" THEN r
        ELSE IF r.st = "none" THEN Ret(List(<<>>), r.off)
        ELSE
    Let(get_arguments(s, r.off), LAMBDA rest :
        IF rest.st = "raise" THEN rest
        ELSE Ret(List(<<r.val>> \o rest.val.items), rest.off)))

\* get_grouped_arguments extending the group by its arguments instead of
\* appending their list: a flattened group
get_grouped_arguments_Flat(s, off) ==
    Let(eat_match(s, off, "lparen"), LAMBDA lp :
        IF ~lp.matched THEN RetNone(off)
        ELSE
    Let(get_arguments(s, lp.off), LAMBDA args :
        IF args.st = "raise" THEN args
        ELSE
    Let(eat_match(s, args.off, "rparen"), LAMBDA rp :
        IF ~rp.matched THEN GroupRequireRParen(s, args.off)
        ELSE Ret(GroupedArguments(<<Token(lp.pos, "lparen", lp.text)>>
                                  \o args.val.items
                                  \o <<Token(rp.pos, "rparen", rp.text)>>),
                 rp.off))))

get_grouped_arguments(s, off) ==
    Let(eat_match(s, off, "lparen"), LAMBDA lp :
        IF ~lp.matched THEN RetNone(off)
        ELSE
    Let(get_arguments(s, lp.off), LAMBDA args :
        IF args.st = "raise" THEN args
        ELSE
    Let(eat_match(s, args.off, "rparen"), LAMBDA rp :
        IF ~rp.matched THEN GroupRequireRParen(s, args.off)
        ELSE Ret(GroupedArguments(<<Token(lp.pos, "lparen", lp.text), args.val,
                                    Token(rp.pos, "rparen", rp.text)>>),
                 rp.off))))

\* a missing '(' taken as "no command here": the other file elements are
\* tried after the identifier
RequireLParen_Fallback(s, off) == RetNone(off)

\* raise SyntaxError(f"requires '(' after identifier at {pos}")
RequireLParen(s, off) == RaiseSyntaxError("requires '(' after identifier", s, off)

\* the missing ')' reported at the last character consumed
RequireRParen_Before(s, off) ==
    RaiseSyntaxError("require closing ')'", s, off - 1)

\* raise SyntaxError(f"require closing ')' at {pos}") of a command invocation
RequireRParen(s, off) == RaiseSyntaxError("require closing ')'", s, off)

get_command_invocation(s, off) ==
    Let(eat_match(s, off, "ident"), LAMBDA id :
        IF ~id.matched THEN RetNone(off)
        ELSE
    Let(get_space(s, id.off), LAMBDA sp :
    Let(eat_match(s, sp.off, "lparen"), LAMBDA lp :
        IF ~lp.matched THEN RequireLParen(s, sp.off)
        ELSE
    Let(get_arguments(s, lp.off), LAMBDA args :
        IF args.st = "raise" THEN args
        ELSE
    Let(eat_match(s, args.off, "rparen"), LAMBDA rp :
        IF ~rp.matched THEN RequireRParen(s, args.off)
        ELSE Ret(Node("CommandInvocation", "command_invocation",
                      <<Token(id.pos, "identifier", id.text)>>
                      \o (IF sp.st = "node" THEN <<sp.val>> ELSE <<>>)
                      \o <<Token(lp.pos, "lparen", lp.text), args.val,
                           Token(rp.pos, "rparen", rp.text)>>), rp.off))))))

\* get_file_element trying get_eof before get_newline and get_space
FileElementProductions_EofFirst ==
    <<"command_invocation", "comment", "eof", "newline", "space">>

\* the productions of get_file_element, in the order they are tried
FileElementProductions ==
    <<"command_invocation", "comment", "newline", "space", "eof">>

FileElementProduction(name, s, off) ==
    CASE name = "command_invocation" -> get_command_invocation(s, off)
      [] name = "comment" -> get_comment(s, off)
      [] name = "newline" -> get_newline(s, off)
      [] name = "space" -> get_space(s, off)
      [] name = "eof" -> get_eof(s, off)

\* pos = rowcol(self.source, self.offset); raise SyntaxError(...)
NoFileElement(s, off) == RaiseSyntaxError("syntax error", s, off)

RECURSIVE get_file_element_from(_, _, _)
\* the loop of get_file_element from its i-th production on
get_file_element_from(i, s, off) ==
    IF i > Len(FileElementProductions) THEN NoFileElement(s, off)
    ELSE Let(FileElementProduction(FileElementProductions[i], s, off), LAMBDA r :
             IF r.st = "raise" THEN r
             ELSE IF r.st = "node" /\ Truthy(r.val) THEN r
             ELSE get_file_element_from(i + 1, s, r.off))

get_file_element(s, off) == get_file_element_from(1, s, off)

RECURSIVE parse_from(_, _)
\* the loop of _parse with self.offset = off: the children collected from
\* there on, up to and with the EOF token
parse_from(s, off) ==
    Let(get_file_element(s, off), LAMBDA r :
        IF r.st = "raise" THEN r
        ELSE IF r.val.kind = "eof" THEN Ret(<<r.val>>, r.off)
        ELSE
    Let(parse_from(s, r.off), LAMBDA rest :
        IF rest.st = "raise" THEN rest
        ELSE Ret(<<r.val>> \o rest.val, rest.off)))

\* CMakeParser._parse: the File, or the exception that escapes
ParseFile(s) ==
    Let(parse_from(s, 0), LAMBDA r :
        IF r.st = "raise" THEN r.val ELSE Node("File", "file", r.val))

\* CMakeParser(source).parse(): self.offset = 0; return self._parse()
parse(s) == ParseFile(s)

----------------------------------------------------------------------------
(* Text reconstruction *)

\* Leaf.text
LeafText(leaf) == Concat([i \in 1..Len(leaf.tokens) |-> leaf.tokens[i].text])

\* child.text of an element of a list held by a command invocation: a list
\* (GroupedArguments) has no attribute text
ElementText(e) ==
    IF e.cls = "Token" THEN Str(e.text)
    ELSE IF e.cls \in LeafClasses THEN Str(LeafText(e))
    ELSE Exception("AttributeError", "object has no attribute 'text'")

RECURSIVE JoinTexts(_)
\* "".join(parts) where a part that is an exception escapes the join
JoinTexts(parts) ==
    IF parts = <<>> THEN Str(<<>>)
    ELSE IF IsException(Head(parts)) THEN Head(parts)
    ELSE Let(JoinTexts(Tail(parts)), LAMBDA rest :
             IF IsException(rest) THEN rest
             ELSE Str(Head(parts).val \o rest.val))

\* get_text(child) of Node.text for a child that is a list
ListText(l) ==
    Let(SelectSeq(l.items, Truthy), LAMBDA kept :
        JoinTexts([i \in 1..Len(kept) |-> ElementText(kept[i])]))

RECURSIVE NodeText(_)
\* get_text(child) of Node.text
ChildText(child) ==
    IF child.cls \in ListClasses THEN ListText(child)
    ELSE IF child.cls = "Token" THEN Str(child.text)
    ELSE IF child.cls \in LeafClasses THEN Str(LeafText(child))
    ELSE NodeText(child)

\* Node.text: the str, or the exception that escapes
NodeText(node) ==
    Let(SelectSeq(node.children, Truthy), LAMBDA kept :
        JoinTexts([i \in 1..Len(kept) |-> ChildText(kept[i])]))

----------------------------------------------------------------------------
(* Formatter *)

\* max_newline of normalize_newline: its default, used at file scope, and
\* the value format_arguments passes
FileMaxNewline == 3
ArgumentsMaxNewline == 1

RECURSIVE NormalizeLines_OffByOne(_, _, _)
\* normalize_newline dropping an empty line only from the second one over
\* max_newline on
NormalizeLines_OffByOne(lines, count, max_newline) ==
    IF lines = <<>> THEN <<>>
    ELSE Let(rstrip(Head(lines)), LAMBDA stripped :
         Let(IF stripped = <<>> THEN count + 1 ELSE 0, LAMBDA newcount :
             IF stripped = <<>> /\ newcount > max_newline + 1
             THEN NormalizeLines_OffByOne(Tail(lines), newcount, max_newline)
             ELSE <<stripped>>
                  \o NormalizeLines_OffByOne(Tail(lines), newcount, max_newline)))

RECURSIVE NormalizeLines(_, _, _)
\* the loop of normalize_newline over lines with newline_count = count: temp
NormalizeLines(lines, count, max_newline) ==
    IF lines = <<>> THEN <<>>
    ELSE Let(rstrip(Head(lines)), LAMBDA stripped :
         Let(IF stripped = <<>> THEN count + 1 ELSE 0, LAMBDA newcount :
             IF stripped = <<>> /\ newcount > max_newline
             THEN NormalizeLines(Tail(lines), newcount, max_newline)
             ELSE <<stripped>>
                  \o NormalizeLines(Tail(lines), newcount, max_newline)))

RECURSIVE JoinLines(_)
\* "\n".join(temp)
JoinLines(temp) ==
    IF temp = <<>> THEN <<>>
    ELSE IF Len(temp) = 1 THEN Head(temp)
    ELSE Head(temp) \o <<"\n">> \o JoinLines(Tail(temp))

\* CMakeFormatter.normalize_newline
normalize_newline(txt, max_newline, normalize_eof) ==
    Let(NormalizeLines(splitlines(txt, FALSE), 0, max_newline), LAMBDA temp :
        IF temp = <<>> \/ ~normalize_eof THEN JoinLines(temp)
        ELSE JoinLines(temp) \o <<"\n">>)

\* arguments[i] for a Python index i into a list of n items, as a 1-based
\* index: a negative index counts from the end; 0 when out of range
PyIndex(i, n) ==
    IF 0 <= i /\ i < n THEN i + 1
    ELSE IF i < 0 /\ -i <= n THEN n + i + 1
    ELSE 0

\* argument.text of an argument that is neither a Token nor a list
ArgumentText(a) ==
    IF a.cls = "Token" THEN Str(a.text)
    ELSE IF a.cls \in LeafClasses THEN Str(LeafText(a))
    ELSE Exception("AttributeError", "object has no attribute 'text'")

\* x.kind of a plain list
NoKind == Exception("AttributeError", "'list' object has no attribute 'kind'")

\* the Space branch of format_arguments for the Space at the 1-based
\* position i: prev_child = arguments[index - 1], next_child =
\* arguments[index + 1]
FormatSpace(items, i) ==
    Let(PyIndex(i - 2, Len(items)), LAMBDA prev :
    Let(PyIndex(i, Len(items)), LAMBDA next :
        IF items[prev].cls = "list" THEN NoKind
        ELSE IF items[prev].kind = "newline" THEN Str(items[i].text)
        ELSE IF items[prev].kind \in {"lparen", "space"} THEN Str(<<>>)
        ELSE IF next = 0 THEN Exception("IndexError", "list index out of range")
        ELSE IF items[next].cls = "list" THEN NoKind
        ELSE IF items[next].kind = "rparen" THEN Str(<<>>)
        ELSE Str(<<" ">>)))

RECURSIVE format_arguments(_), FormatArgumentsFrom(_, _)

\* what the loop of format_arguments appends to temp for the argument at
\* the 1-based position i of items: a str, or the exception that escapes.
\* The text format_arguments gives for a GroupedArguments is dropped.
FormatArgument(items, i) ==
    IF items[i].cls = "list" THEN NoKind
    ELSE IF items[i].kind \in {"lparen", "rparen", "newline"}
    THEN Str(items[i].text)
    ELSE IF items[i].kind = "space" THEN FormatSpace(items, i)
    ELSE IF items[i].cls = "GroupedArguments"
    THEN Let(format_arguments(items[i]), LAMBDA inner :
             IF IsException(inner) THEN inner ELSE Str(<<>>))
    ELSE ArgumentText(items[i])

\* the loop of format_arguments from the 1-based position i on
FormatArgumentsFrom(items, i) ==
    IF i > Len(items) THEN Str(<<>>)
    ELSE Let(FormatArgument(items, i), LAMBDA one :
             IF IsException(one) THEN one
             ELSE
         Let(FormatArgumentsFrom(items, i + 1), LAMBDA rest :
             IF IsException(rest) THEN rest
             ELSE Str(one.val \o rest.val)))

\* CMakeFormatter.format_arguments: enumerate() of an object that is no
\* list is a TypeError
format_arguments(arguments) ==
    IF arguments.cls \notin ListClasses
    THEN Exception("TypeError", "object is not iterable")
    ELSE Let(FormatArgumentsFrom(arguments.items, 1), LAMBDA joined :
             IF IsException(joined) THEN joined
             ELSE Str(normalize_newline(joined.val, ArgumentsMaxNewline, FALSE)))

\* argument_index of format_command, as a 1-based position: the child
\* after the identifier, or the one after the Space that follows it
ArgumentIndex(children) == IF children[2].kind = "space" THEN 3 ELSE 2

\* CMakeFormatter.format_command
format_command(command) ==
    IF command.children[1].kind # "identifier"
    THEN Exception("ValueError", "children[0] must ast.Identifier")
    ELSE Let(format_arguments(command.children[ArgumentIndex(command.children)]),
             LAMBDA fmt :
             IF IsException(fmt) THEN fmt
             ELSE Str(command.children[1].text
                      \o (IF command.children[2].kind = "space"
                          THEN <<" ">> ELSE <<>>)
                      \o fmt.val))

\* what the loop of format_file appends to temp for the child at the
\* 1-based position i: a str, or the exception that escapes
FormatChild(children, i) ==
    IF children[i].kind = "newline" THEN Str(children[i].text)
    ELSE IF children[i].kind = "space"
    THEN IF i + 1 > Len(children) THEN Str(<<>>)
         ELSE IF children[i + 1].kind = "newline" THEN Str(<<>>)
         ELSE Str(children[i].text)
    ELSE IF children[i].cls = "CommandInvocation"
    THEN format_command(children[i])
    ELSE IF children[i].cls \in CommentClasses THEN Str(LeafText(children[i]))
    ELSE Exception("ValueError", "undefined rule")

RECURSIVE FormatFileFrom(_, _)
\* the loop of format_file from the 1-based position i on: the text
\* joined from temp, or the exception that escapes
FormatFileFrom(children, i) ==
    IF i > Len(children) \/ children[i].kind = "eof" THEN Str(<<>>)
    ELSE Let(FormatChild(children, i), LAMBDA one :
             IF IsException(one) THEN one
             ELSE
         Let(FormatFileFrom(children, i + 1), LAMBDA rest :
             IF IsException(rest) THEN rest
             ELSE Str(one.val \o rest.val)))

\* CMakeFormatter.format_file
format_file(file) ==
    Let(FormatFileFrom(file.children, 1), LAMBDA joined :
        IF IsException(joined) THEN joined
        ELSE Str(normalize_newline(joined.val, FileMaxNewline, TRUE)))

\* CMakeFormatter(source).format_source()
format_source(s) ==
    Let(parse(s), LAMBDA t : IF IsException(t) THEN t ELSE format_file(t))

----------------------------------------------------------------------------
(* Source texts *)

\* the characters the enumerated source texts are made of
Alphabet == {"a", " ", "\n", "(", ")", "#"}

\* foo(
SrcUnterminated == <<"f", "o", "o", "(">>
\* command(a b c)
SrcThreeWords ==
    <<"c", "o", "m", "m", "a", "n", "d", "(", "a", " ", "b", " ", "c", ")">>
\* command(a (b c) d)
SrcGrouped ==
    <<"c", "o", "m", "m", "a", "n", "d", "(", "a", " ", "(", "b", " ", "c", ")",
      " ", "d", ")">>
\* command(   a    b )
SrcSpaced ==
    <<"c", "o", "m", "m", "a", "n", "d", "(", " ", " ", " ", "a", " ", " ", " ",
      " ", "b", " ", ")">>
\* a\nbc\n
SrcTwoLines == <<"a", "\n", "b", "c", "\n">>
\* #a, ten empty lines, #b
SrcBlankLines ==
    <<"#", "a", "\n", "\n", "\n", "\n", "\n", "\n", "\n", "\n", "\n", "\n", "\n",
      "#", "b", "\n">>
\* f(a, a comment, four empty lines, b)
SrcBlankArguments ==
    <<"f", "(", "a", " ", "#", "\n", "\n", "\n", "\n", "\n", " ", "b", ")">>
\* f(a\n) with a space before the newline, then a second command on a line
SrcTwoCommands ==
    <<"f", "(", "a", " ", ")", "\n", "g", " ", "(", ")", "\n">>

\* #[==[text]==]
SrcBracketComment ==
    <<"#", "[", "=", "=", "[", "t", "e", "x", "t", "]", "=", "=", "]">>
\* #[==[text]=]
SrcBracketMismatch ==
    <<"#", "[", "=", "=", "[", "t", "e", "x", "t", "]", "=", "]">>
\* foo("a \"b\" c")
SrcEscapedQuote ==
    <<"f", "o", "o", "(", "\"", "a", " ", "\\", "\"", "b", "\\", "\"", " ", "c",
      "\"", ")">>
\* foo(a\nb): two words separated by a newline
SrcNewlineWords == <<"f", "o", "o", "(", "a", "\n", "b", ")">>
\* foo(a\(b)
SrcEscapedParen == <<"f", "o", "o", "(", "a", "\\", "(", "b", ")">>
\* a bracket comment of three lines, then a line comment
SrcCommentLines ==
    <<"#", "[", "[", "a", "\n", "b", "\n", "c", "]", "]", "\n", "#", "d", "\n">>

Samples ==
    {SrcUnterminated, SrcThreeWords, SrcGrouped, SrcSpaced, SrcTwoLines,
     SrcBlankLines, SrcBlankArguments, SrcTwoCommands, SrcBracketComment,
     SrcBracketMismatch, SrcEscapedQuote, SrcNewlineWords, SrcEscapedParen,
     SrcCommentLines}

\* the characters of the short texts that hold every terminal of the grammar
WideAlphabet ==
    {"a", " ", "\t", "\n", "(", ")", "#", "[", "]", "=", "\"", "\\"}

\* the texts over WideAlphabet
WideTexts == UNION {[1..n -> WideAlphabet] : n \in 0..MaxWide}

\* f(body): body in argument position
ArgumentSrc(body) == <<"f", "(">> \o body \o <<")">>

\* the characters of the bodies of brackets and quoted arguments
BodyAlphabet == {"a", " ", "=", "]", "\"", "\\", "\n"}

BodyTexts == UNION {[1..n -> BodyAlphabet] : n \in 0..MaxBody}

\* n times '='
Equals(n) == [i \in 1..n |-> "="]

\* [=*[ body ]=*] with n '=' in the opener and m in the closer
BracketSrc(n, body, m) ==
    <<"[">> \o Equals(n) \o <<"[">> \o body \o <<"]">> \o Equals(m) \o <<"]">>

\* the bracket as a comment, and as the argument of a command
BracketCommentSrc(n, body, m) == <<"#">> \o BracketSrc(n, body, m)
BracketArgumentSrc(n, body, m) == ArgumentSrc(BracketSrc(n, body, m))

\* f("body")
QuotedSrc(body) == ArgumentSrc(<<"\"">> \o body \o <<"\"">>)

Sources ==
    UNION {[1..n -> Alphabet] : n \in 0..MaxLen}
    \cup Samples
    \cup WideTexts
    \cup {ArgumentSrc(body) : body \in WideTexts}
    \cup {BracketCommentSrc(n, body, m) :
              n \in 0..MaxEq, body \in BodyTexts, m \in 0..MaxEq}
    \cup {BracketArgumentSrc(n, body, m) :
              n \in 0..MaxEq, body \in BodyTexts, m \in 0..MaxEq}
    \cup {QuotedSrc(body) : body \in BodyTexts}

----------------------------------------------------------------------------
(* Script query service: api.Script (api/__init__.py) and                 *)
(* cmake_script.Script (api/cmake_script.py)                               *)

\* \w of a str pattern: [A-Za-z0-9_] and the letters and numbers of
\* U+0080..U+00FF
WordChars ==
    IdentChar \cup
    {"ª", "²", "³", "µ", "¹", "º", "¼", "½", "¾", "À", "Á", "Â", "Ã",
     "Ä", "Å", "Æ", "Ç", "È", "É", "Ê", "Ë", "Ì", "Í", "Î", "Ï", "Ð",
     "Ñ", "Ò", "Ó", "Ô", "Õ", "Ö", "Ø", "Ù", "Ú", "Û", "Ü", "Ý", "Þ",
     "ß", "à", "á", "â", "ã", "ä", "å", "æ", "ç", "è", "é", "ê", "ë",
     "ì", "í", "î", "ï", "ð", "ñ", "ò", "ó", "ô", "õ", "ö", "ø", "ù",
     "ú", "û", "ü", "ý", "þ", "ÿ"}

\* \s of a str pattern within one line of source.split("\n")
RegexSpace == Whitespace \ {"\n"}

Letters ==
    <<"a", "b", "c", "d", "e", "f", "g", "h", "i", "j", "k", "l", "m",
      "n", "o", "p", "q", "r", "s", "t", "u", "v", "w", "x", "y", "z">>
Capitals ==
    <<"A", "B", "C", "D", "E", "F", "G", "H", "I", "J", "K", "L", "M",
      "N", "O", "P", "Q", "R", "S", "T", "U", "V", "W", "X", "Y", "Z">>

\* the lower-case letter of a capital, any other character unchanged: what
\* re.IGNORECASE compares when the pattern's literals are ASCII letters and
\* the text holds code points up to U+00FF
ToLower(c) ==
    IF c \in Upper
    THEN Letters[CHOOSE i \in 1..Len(Capitals) : Capitals[i] = c]
    ELSE c

\* the literal text lit matches at offset i of t, whatever the case
LiteralAt(t, i, lit) ==
    /\ i >= 0
    /\ i + Len(lit) <= Len(t)
    /\ \A j \in 1..Len(lit) : ToLower(t[i + j]) = lit[j]

RECURSIVE split_from(_, _)
\* the pieces of s.split("\n") from offset start on
split_from(s, start) ==
    Let(start + RunLenNot(s, start, {"\n"}), LAMBDA end :
        IF end >= Len(s) THEN <<Slice(s, start, end)>>
        ELSE <<Slice(s, start, end)>> \o split_from(s, end + 1))

\* s.split("\n"): one piece at least
split(s) == split_from(s, 0)

\* t[:c] for any integer c
SliceTo(t, c) ==
    IF c >= 0 THEN Slice(t, 0, c)
    ELSE IF Len(t) + c > 0 THEN Slice(t, 0, Len(t) + c)
    ELSE <<>>

\* the names `cmake --help-command-list`, `--help-module-list`,
\* `--help-property-list` and `--help-variable-list` print: a sample
CommandNames == {<<"s", "e", "t">>, <<"a">>}
ModuleNames == {<<"C", "T", "e", "s", "t">>}
PropertyNames == {<<"a", "_", "a">>}
VariableNames == {<<"S", "_", "a">>}

\* Proxy.get_all_names(): the names of the four kinds
get_all_names ==
    CommandNames \cup ModuleNames \cup PropertyNames \cup VariableNames

\* what `cmake --help-<type> name` prints: a sample text with characters
\* that html.escape replaces
get_cmake_documentation(name) == <<"<">> \o name \o <<">", " ", "&", "'", "\"">>

\* Proxy.get_documentation(name)
get_documentation(name) ==
    IF name \notin get_all_names
    THEN Exception("ValueError", "name not found")
    ELSE Str(get_cmake_documentation(name))

\* html.escape(c) of one character, quote = True
EscapeChar(c) ==
    CASE c = "&" -> <<"&", "a", "m", "p", ";">>
      [] c = "<" -> <<"&", "l", "t", ";">>
      [] c = ">" -> <<"&", "g", "t", ";">>
      [] c = "\"" -> <<"&", "q", "u", "o", "t", ";">>
      [] c = "'" -> <<"&", "#", "x", "2", "7", ";">>
      [] OTHER -> <<c>>

\* html.escape(t)
html_escape(t) == Concat([i \in 1..Len(t) |-> EscapeChar(t[i])])

RECURSIVE WordAt(_, _, _)
\* the loop over re.finditer(r"(\w+)", line) from offset off on: the first
\* run with found.start() <= c <= found.end(), None when there is none
WordAt(line, c, off) ==
    Let(off + RunLenNot(line, off, WordChars), LAMBDA start :
        IF start >= Len(line) THEN None
        ELSE
    Let(start + RunLen(line, start, WordChars), LAMBDA end :
        IF start <= c /\ c <= end THEN Str(Slice(line, start, end))
        ELSE WordAt(line, c, end)))

\* Script._get_word_at(row, col) of Script(s): occur_line = lines[row] is
\* read before the row is checked
get_word_at(s, r, c) ==
    Let(split(s), LAMBDA lines :
        IF PyIndex(r, Len(lines)) = 0
        THEN Exception("IndexError", "list index out of range")
        ELSE
    Let(lines[PyIndex(r, Len(lines))], LAMBDA occur_line :
        IF Len(lines) # 0 /\ r >= Len(lines)
        THEN Exception("ValueError", "params row not in valid range")
        ELSE IF Len(occur_line) # 0 /\ c > Len(occur_line)
        THEN Exception("ValueError", "params column not in valid range")
        ELSE IF WordAt(occur_line, c, 0) = None
        THEN Exception("ValueError", "no identifier found")
        ELSE WordAt(occur_line, c, 0)))

\* api.Script(s).help(r, c): ValueError is caught, any other exception
\* escapes
help(s, r, c) ==
    Let(get_word_at(s, r, c), LAMBDA name :
        IF name.cls = "ValueError" THEN Str(<<>>)
        ELSE IF IsException(name) THEN name
        ELSE
    Let(get_documentation(name.val), LAMBDA doc :
        IF doc.cls = "ValueError" THEN Str(<<>>)
        ELSE Str(<<"<", "p", "r", "e", ">">> \o html_escape(doc.val)
                 \o <<"<", "/", "p", "r", "e", ">">>)))

\* Scope
Scopes ==
    {"command", "setter", "access", "include", "params", "value", "unknown"}

\* get_scope trying params_pattern before setter_pattern
ScopePatterns_ParamsFirst ==
    <<"command", "params", "setter", "access", "include", "value">>

\* the patterns of cmake_script.Script in the order get_scope tries them
ScopePatterns ==
    <<"command", "setter", "access", "include", "params", "value">>

\* t[g:] is \w* up to the end of t: the offset g when it is, else -1
WordToEnd(t, g) ==
    IF g <= Len(t) /\ g + RunLen(t, g, WordChars) = Len(t) THEN g ELSE -1

RECURSIVE ValueTail(_, _)
\* (?:\w+ )*(\w*)$ at offset m of t: the offset where group 1 begins, -1
\* when there is no match
ValueTail(t, m) ==
    Let(RunLen(t, m, WordChars), LAMBDA w :
        IF m + w = Len(t) THEN m
        ELSE IF w >= 1 /\ CharAt(t, m + w) = " " THEN ValueTail(t, m + w + 1)
        ELSE -1)

\* the pattern matched at offset i of t: the offset where group 1 begins,
\* -1 when the pattern does not match there
GroupStart(pattern, t, i) ==
    CASE pattern = "command" ->     \* ^\s*(\w*)$
           IF i = 0 THEN WordToEnd(t, RunLen(t, 0, RegexSpace)) ELSE -1
      [] pattern = "setter" ->      \* set\((\w*)$
           IF LiteralAt(t, i, <<"s", "e", "t", "(">>)
           THEN WordToEnd(t, i + 4) ELSE -1
      [] pattern = "access" ->      \* \${(\w*)$
           IF LiteralAt(t, i, <<"$", "{">>) THEN WordToEnd(t, i + 2) ELSE -1
      [] pattern = "include" ->     \* include\((\w*)$
           IF LiteralAt(t, i, <<"i", "n", "c", "l", "u", "d", "e", "(">>)
           THEN WordToEnd(t, i + 8) ELSE -1
      [] pattern = "params" ->      \* \w+\((\w*)$
           Let(i + RunLen(t, i, WordChars), LAMBDA j :
               IF j > i /\ CharAt(t, j) = "(" THEN WordToEnd(t, j + 1) ELSE -1)
      [] pattern = "value" ->       \* \w+\(\w+ (?:\w+ )*(\w*)$
           Let(i + RunLen(t, i, WordChars), LAMBDA j :
           Let(RunLen(t, j + 1, WordChars), LAMBDA w :
               IF j > i /\ CharAt(t, j) = "(" /\ w >= 1
                  /\ CharAt(t, j + 1 + w) = " "
               THEN ValueTail(t, j + 2 + w) ELSE -1))

RECURSIVE search_from(_, _, _)
\* pattern.search(t) from offset i on: the offset where group 1 of the
\* leftmost match begins, -1 when there is no match
search_from(pattern, t, i) ==
    IF GroupStart(pattern, t, i) >= 0 THEN GroupStart(pattern, t, i)
    ELSE IF i >= Len(t) THEN -1
    ELSE search_from(pattern, t, i + 1)

\* found.group(1) of pattern.search(t), None when there is no match
search(pattern, t) ==
    IF search_from(pattern, t, 0) >= 0
    THEN Str(Slice(t, search_from(pattern, t, 0), Len(t)))
    ELSE None

\* the tuple (Scope, identifier)
ScopeResult(scope, name) == [cls |-> "tuple", scope |-> scope, name |-> name]

RECURSIVE get_scope_from(_, _)
\* the tests of get_scope from the i-th pattern on
get_scope_from(i, t) ==
    IF i > Len(ScopePatterns) THEN ScopeResult("unknown", <<>>)
    ELSE IF search(ScopePatterns[i], t) # None
    THEN ScopeResult(ScopePatterns[i], search(ScopePatterns[i], t).val)
    ELSE get_scope_from(i + 1, t)

\* cmake_script.Script(s).get_scope(line, column)
get_scope(s, r, c) ==
    Let(split(s), LAMBDA lines :
        IF PyIndex(r, Len(lines)) = 0
        THEN Exception("IndexError", "list index out of range")
        ELSE get_scope_from(1, SliceTo(lines[PyIndex(r, Len(lines))], c)))

\* the names of the mapping cmake_script.Script.get_candidates(scope) gives
get_candidates(scope) ==
    CASE scope = "command" -> CommandNames
      [] scope \in {"setter", "access", "value"} ->
           VariableNames \cup PropertyNames
      [] scope = "include" -> ModuleNames
      [] scope = "params" -> ModuleNames \cup VariableNames \cup PropertyNames
      [] OTHER -> {}

----------------------------------------------------------------------------
(* Operations *)

\* no script query was made
IdleQuery ==
    /\ row = 0
    /\ col = 0
    /\ answer = Unset
    /\ candidates = Unset

\* no thread was started
IdleThreads ==
    /\ lock = 0
    /\ pc = <<>>
    /\ ran = {}
    /\ blocked = {}
    /\ met = <<>>
    /\ slot = None
    /\ got = None
    /\ delivered = {}
    /\ lost = {}
    /\ pending = 0
    /\ event = FALSE

\* no parser or formatter was run
IdleParser ==
    /\ tree = Unset
    /\ text = Unset
    /\ formatted = Unset
    /\ reformatted = Unset
    /\ index = 0
    /\ offset = 0
    /\ pos = Unset
    /\ pat = ""
    /\ match = Unset
    /\ cursor = 0

Init ==
    /\ source \in Sources
    /\ phase = "new"
    /\ tree = Unset
    /\ text = Unset
    /\ formatted = Unset
    /\ reformatted = Unset
    /\ index = 0
    /\ offset = 0
    /\ pos = Unset
    /\ pat = ""
    /\ match = Unset
    /\ cursor = 0
    /\ IdleQuery
    /\ IdleThreads

\* tree = CMakeParser(source).parse()
Parse ==
    /\ phase = "new"
    /\ tree' = parse(source)
    /\ phase' = "parsed"
    /\ UNCHANGED <<source, text, formatted, reformatted, index, offset, pos,
                   pat, match, cursor>>
    /\ UNCHANGED <<queryVars, threadVars>>

\* tree.text
ReadText ==
    /\ phase = "parsed"
    /\ tree.cls = "File"
    /\ text' = NodeText(tree)
    /\ phase' = "text"
    /\ UNCHANGED <<source, tree, formatted, reformatted, index, offset, pos,
                   pat, match, cursor>>
    /\ UNCHANGED <<queryVars, threadVars>>

\* format_file deleting from file.children the Space tokens it drops
FormatFile_InPlace ==
    /\ phase = "parsed"
    /\ tree.cls = "File"
    /\ formatted' = format_file(tree)
    /\ tree' = [tree EXCEPT !.children =
                    SelectSeq(tree.children, LAMBDA c : c.kind # "space")]
    /\ phase' = "file_formatted"
    /\ UNCHANGED <<source, text, reformatted, index, offset, pos,
                   pat, match, cursor>>
    /\ UNCHANGED <<queryVars, threadVars>>

\* CMakeFormatter(source).format_file(tree)
FormatFile ==
    /\ phase = "parsed"
    /\ tree.cls = "File"
    /\ formatted' = format_file(tree)
    /\ phase' = "file_formatted"
    /\ UNCHANGED <<source, tree, text, reformatted, index, offset, pos,
                   pat, match, cursor>>
    /\ UNCHANGED <<queryVars, threadVars>>

\* the list of arguments of a command invocation: the child after '('
ArgumentsOf(command) == command.children[ArgumentIndex(command.children) + 1]

\* CMakeFormatter(source).format_arguments(arguments) for the arguments of
\* a command invocation of the tree
FormatArguments ==
    /\ phase = "parsed"
    /\ tree.cls = "File"
    /\ \E i \in 1..Len(tree.children) :
          /\ tree.children[i].cls = "CommandInvocation"
          /\ index' = i
          /\ formatted' = format_arguments(ArgumentsOf(tree.children[i]))
    /\ phase' = "arguments_formatted"
    /\ UNCHANGED <<source, tree, text, reformatted, offset, pos,
                   pat, match, cursor>>
    /\ UNCHANGED <<queryVars, threadVars>>

\* CMakeFormatter(source).format_source()
FormatSource ==
    /\ phase = "new"
    /\ formatted' = format_source(source)
    /\ phase' = "formatted"
    /\ UNCHANGED <<source, tree, text, reformatted, index, offset, pos,
                   pat, match, cursor>>
    /\ UNCHANGED <<queryVars, threadVars>>

\* CMakeFormatter(formatted).format_source()
FormatAgain ==
    /\ phase = "formatted"
    /\ formatted.cls = "str"
    /\ reformatted' = format_source(formatted.val)
    /\ phase' = "reformatted"
    /\ UNCHANGED <<source, tree, text, formatted, index, offset, pos,
                   pat, match, cursor>>
    /\ UNCHANGED <<queryVars, threadVars>>

\* rowcol(source, k)
RowCol ==
    /\ phase = "new"
    /\ \E k \in 0..Len(source) :
          /\ offset' = k
          /\ pos' = rowcol(source, k)
    /\ phase' = "located"
    /\ UNCHANGED <<source, tree, text, formatted, reformatted, index,
                   pat, match, cursor>>
    /\ UNCHANGED <<queryVars, threadVars>>

\* CMakeParser(source).eat_match(p) with self.offset = k, on a short text
EatMatch ==
    /\ phase = "new"
    /\ Len(source) <= MaxWide
    /\ \E k \in 0..Len(source), p \in Patterns :
          /\ offset' = k
          /\ pat' = p
          /\ match' = (IF eat_match(source, k, p).matched
                       THEN MatchResult(eat_match(source, k, p).pos,
                                        eat_match(source, k, p).text)
                       ELSE None)
          /\ cursor' = eat_match(source, k, p).off
    /\ phase' = "matched"
    /\ UNCHANGED <<source, tree, text, formatted, reformatted, index, pos>>
    /\ UNCHANGED <<queryVars, threadVars>>

Next ==
    \/ Parse
    \/ ReadText
    \/ FormatFile
    \/ FormatArguments
    \/ FormatSource
    \/ FormatAgain
    \/ RowCol
    \/ EatMatch

Spec == Init /\ [][Next]_vars

\* the characters of the enumerated script texts
QueryAlphabet == {"a", " ", "(", "$", "{", "\n"}

\* the texts over QueryAlphabet
QueryTexts == UNION {[1..n -> QueryAlphabet] : n \in 0..MaxQuery}

\* what stands before a command on its line, the command names and what
\* follows the '(' in the enumerated one-line scripts
Indents == {<<>>, <<" ">>, <<"f", "(", ")", " ">>}
CommandWords ==
    {<<"s", "e", "t">>, <<"S", "E", "T">>, <<"u", "n", "s", "e", "t">>,
     <<"i", "n", "c", "l", "u", "d", "e">>, <<"I", "n", "c", "l", "u", "d", "e">>,
     <<"f", "o", "o">>}
Tails ==
    {<<>>, <<"N", "A">>, <<"A", " ", "B">>, <<"A", " ", " ", "B">>,
     <<"A", " ", "B", " ">>, <<"$", "{", "N">>, <<"A", " ", "B", " ", "C">>,
     <<"A", "-", "B">>}

\* indent, word, '(' and tail on one line
ScopeSrc(indent, word, tail) == indent \o word \o <<"(">> \o tail

ScriptSources ==
    QueryTexts
    \cup {ScopeSrc(indent, word, tail) :
              indent \in Indents, word \in CommandWords, tail \in Tails}

\* api.Script(source) / cmake_script.Script(source)
InitScript ==
    /\ source \in ScriptSources
    /\ phase = "new"
    /\ IdleParser
    /\ IdleQuery
    /\ IdleThreads

\* the rows and columns handed to a query on the text s
Rows == (0 - (MaxRow + 1))..MaxRow
Cols(s) == (0 - 1)..(Len(s) + 1)

\* api.Script(source).help(r, c)
Help ==
    /\ phase = "new"
    /\ \E r \in Rows, c \in Cols(source) :
          /\ row' = r
          /\ col' = c
          /\ answer' = help(source, r, c)
    /\ phase' = "helped"
    /\ UNCHANGED <<source, candidates, parserVars, threadVars>>

\* cmake_script.Script(source).get_scope(r, c)
GetScope ==
    /\ phase = "new"
    /\ \E r \in Rows, c \in Cols(source) :
          /\ row' = r
          /\ col' = c
          /\ answer' = get_scope(source, r, c)
    /\ phase' = "scoped"
    /\ UNCHANGED <<source, candidates, parserVars, threadVars>>

\* cmake_script.Script(source).get_candidates(scope) for the scope that
\* get_scope gave
GetCandidates ==
    /\ phase = "scoped"
    /\ answer.cls = "tuple"
    /\ candidates' = get_candidates(answer.scope)
    /\ phase' = "candidates"
    /\ UNCHANGED <<source, row, col, answer, parserVars, threadVars>>

NextScript ==
    \/ Help
    \/ GetScope
    \/ GetCandidates

SpecScript == InitScript /\ [][NextScript]_vars

----------------------------------------------------------------------------
(* The request gate: pipe (CMaketools.py), call_once and                   *)
(* ViewEventListener.call_once (cmaketools.py).  The three wrappers have   *)
(* the same text:                                                          *)
(*     if LOCK.locked(): return None                                       *)
(*     with LOCK: return func(...)                                         *)
(* A thread may be suspended between any two of its steps.                 *)

\* the threads started with a gated function as target
Threads == 1..MaxThreads

\* the thread t is between the call of the wrapper and its return
InCall(t) ==
    pc[t] \in {"check", "acquire", "body", "write", "trigger", "set",
               "exit_ok", "exit_err"}

\* no gated function was called: the lock is free
InitGate ==
    /\ source = <<>>
    /\ phase = "new"
    /\ IdleParser
    /\ IdleQuery
    /\ lock = 0
    /\ pc = [t \in Threads |-> "idle"]
    /\ ran = {}
    /\ blocked = {}
    /\ met = [t \in Threads |-> {}]
    /\ slot = None
    /\ got = None
    /\ delivered = {}
    /\ lost = {}
    /\ pending = 0
    /\ event = FALSE

\* thread.start(): the thread t calls the wrapper
Call(t) ==
    /\ pc[t] = "idle"
    /\ pc' = [pc EXCEPT ![t] = "check"]
    /\ met' = [u \in DOMAIN met |->
                  IF u = t THEN {v \in DOMAIN met : v # t /\ InCall(v)}
                  ELSE IF InCall(u) THEN met[u] \cup {t}
                  ELSE met[u]]
    /\ UNCHANGED <<lock, ran, blocked, slot, got, delivered, lost, pending,
                   event>>
    /\ UNCHANGED <<source, phase, parserVars, queryVars>>

\* if LOCK.locked(): return None
Check(t) ==
    /\ pc[t] = "check"
    /\ pc' = [pc EXCEPT ![t] = IF lock # 0 THEN "dropped" ELSE "acquire"]
    /\ UNCHANGED <<lock, ran, blocked, met, slot, got, delivered, lost,
                   pending, event>>
    /\ UNCHANGED <<source, phase, parserVars, queryVars>>

\* with LOCK: entered without taking the lock
Acquire_NoLock(t) ==
    /\ pc[t] = "acquire"
    /\ lock' = t
    /\ pc' = [pc EXCEPT ![t] = "body"]
    /\ ran' = ran \cup {t}
    /\ blocked' = blocked
    /\ UNCHANGED <<met, slot, got, delivered, lost, pending, event>>
    /\ UNCHANGED <<source, phase, parserVars, queryVars>>

\* with LOCK: LOCK.acquire() returns when the lock is free; the threads
\* that stand at their own `with LOCK` from then on wait for it
Acquire(t) ==
    /\ pc[t] = "acquire"
    /\ lock = 0
    /\ lock' = t
    /\ pc' = [pc EXCEPT ![t] = "body"]
    /\ ran' = ran \cup {t}
    /\ blocked' = blocked \cup {u \in DOMAIN pc : u # t /\ pc[u] = "acquire"}
    /\ UNCHANGED <<met, slot, got, delivered, lost, pending, event>>
    /\ UNCHANGED <<source, phase, parserVars, queryVars>>

\* the gated function returns
BodyReturns(t) ==
    /\ pc[t] = "body"
    /\ pc' = [pc EXCEPT ![t] = "exit_ok"]
    /\ UNCHANGED <<lock, ran, blocked, met, slot, got, delivered, lost,
                   pending, event>>
    /\ UNCHANGED <<source, phase, parserVars, queryVars>>

\* the gated function raises
BodyRaises(t) ==
    /\ pc[t] = "body"
    /\ pc' = [pc EXCEPT ![t] = "exit_err"]
    /\ UNCHANGED <<lock, ran, blocked, met, slot, got, delivered, lost,
                   pending, event>>
    /\ UNCHANGED <<source, phase, parserVars, queryVars>>

\* the end of the with statement: LOCK.release(), then the wrapper returns
\* what func returned or the exception goes on
Release(t) ==
    /\ pc[t] \in {"exit_ok", "exit_err"}
    /\ lock' = 0
    /\ pc' = [pc EXCEPT ![t] = IF pc[t] = "exit_ok" THEN "returned"
                                ELSE "raised"]
    /\ UNCHANGED <<ran, blocked, met, slot, got, delivered, lost, pending,
                   event>>
    /\ UNCHANGED <<source, phase, parserVars, queryVars>>

NextGate ==
    \E t \in Threads :
        \/ Call(t)
        \/ Check(t)
        \/ Acquire(t)
        \/ BodyReturns(t)
        \/ BodyRaises(t)
        \/ Release(t)

SpecGate == InitGate /\ [][NextGate]_vars

----------------------------------------------------------------------------
(* The completion results slot of EventListener (CMaketools.py).  The      *)
(* editor calls on_query_completions and on_hover on its own thread,       *)
(* thread 0; the threads 1..MaxThreads are the workers it starts with      *)
(* get_completion_task, and thread MaxThreads + 1 is the one it starts     *)
(* with get_help_task; both targets are gated by pipe.  An assignment to   *)
(* or a read of self._completion_result is one step.                       *)

\* the plugin was loaded: the slot is None, no worker exists, and the user
\* will ask for completions MaxCalls times
InitSlot ==
    /\ source = <<>>
    /\ phase = "new"
    /\ IdleParser
    /\ IdleQuery
    /\ lock = 0
    /\ pc = [t \in 0..(MaxThreads + 1) |-> IF t = 0 THEN "idle" ELSE "unborn"]
    /\ ran = {}
    /\ blocked = {}
    /\ met = [t \in 0..(MaxThreads + 1) |-> {}]
    /\ slot = None
    /\ got = None
    /\ delivered = {}
    /\ lost = {}
    /\ pending = MaxCalls
    /\ event = FALSE

\* the editor calls on_query_completions for a view of cmake code
Callback ==
    /\ pc[0] = "idle"
    /\ pending > 0
    /\ pending' = pending - 1
    /\ pc' = [pc EXCEPT ![0] = "test"]
    /\ UNCHANGED <<lock, ran, blocked, met, slot, got, delivered, lost, event>>
    /\ UNCHANGED <<source, phase, parserVars, queryVars>>

\* on_hover with hover_zone == sublime.HOVER_TEXT on a view of cmake code:
\* a thread with target get_help_task is started
Hover ==
    /\ pc[0] = "idle"
    /\ pc[MaxThreads + 1] = "unborn"
    /\ pc' = [pc EXCEPT ![MaxThreads + 1] = "idle"]
    /\ UNCHANGED <<lock, ran, blocked, met, slot, got, delivered, lost,
                   pending, event>>
    /\ UNCHANGED <<source, phase, parserVars, queryVars>>

\* if self._completion_result:
TestSlot ==
    /\ pc[0] = "test"
    /\ pc' = [pc EXCEPT ![0] = IF Truthy(slot) THEN "read" ELSE "start"]
    /\ UNCHANGED <<lock, ran, blocked, met, slot, got, delivered, lost,
                   pending, event>>
    /\ UNCHANGED <<source, phase, parserVars, queryVars>>

\* thread = threading.Thread(target=self.get_completion_task, ...);
\* thread.start(); the callback returns None.  The new thread is the first
\* worker not yet born; when all were born, none is started.
StartWorker ==
    /\ pc[0] = "start"
    /\ pc' = IF \E w \in Threads : pc[w] = "unborn"
             THEN [pc EXCEPT ![0] = "idle",
                             ![CHOOSE w \in Threads :
                                  /\ pc[w] = "unborn"
                                  /\ \A v \in 1..(w - 1) : pc[v] # "unborn"] =
                                 "idle"]
             ELSE [pc EXCEPT ![0] = "idle"]
    /\ UNCHANGED <<lock, ran, blocked, met, slot, got, delivered, lost,
                   pending, event>>
    /\ UNCHANGED <<source, phase, parserVars, queryVars>>

\* result = self._completion_result
ReadSlot ==
    /\ pc[0] = "read"
    /\ got' = slot
    /\ pc' = [pc EXCEPT ![0] = "clear"]
    /\ UNCHANGED <<lock, ran, blocked, met, slot, delivered, lost, pending,
                   event>>
    /\ UNCHANGED <<source, phase, parserVars, queryVars>>

\* self._completion_result = None; return sublime.CompletionList(result, ...)
\* What the slot held when it was cleared, if it is not what is returned,
\* is lost.
ClearSlot ==
    /\ pc[0] = "clear"
    /\ slot' = None
    /\ delivered' = delivered \cup {got}
    /\ lost' = IF Truthy(slot) /\ slot # got THEN lost \cup {slot} ELSE lost
    /\ got' = None
    /\ pc' = [pc EXCEPT ![0] = "idle"]
    /\ UNCHANGED <<lock, ran, blocked, met, pending, event>>
    /\ UNCHANGED <<source, phase, parserVars, queryVars>>

\* completions = cmake_script.complete(source, row, col) is not empty
Completions(t) ==
    /\ pc[t] = "body"
    /\ pc' = [pc EXCEPT ![t] = "write"]
    /\ UNCHANGED <<lock, ran, blocked, met, slot, got, delivered, lost,
                   pending, event>>
    /\ UNCHANGED <<source, phase, parserVars, queryVars>>

\* self._completion_result = [CompletionItem.from_base_name(completion) ...]
\* The list is told from the other workers' lists by the worker's number.
WriteSlot(t) ==
    /\ pc[t] = "write"
    /\ slot' = List(<<t>>)
    /\ pc' = [pc EXCEPT ![t] = "trigger"]
    /\ UNCHANGED <<lock, ran, blocked, met, got, delivered, lost, pending,
                   event>>
    /\ UNCHANGED <<source, phase, parserVars, queryVars>>

\* self.trigger_completion(view): the auto_complete command makes the editor
\* call on_query_completions once more
Trigger(t) ==
    /\ pc[t] = "trigger"
    /\ pending' = pending + 1
    /\ pc' = [pc EXCEPT ![t] = "exit_ok"]
    /\ UNCHANGED <<lock, ran, blocked, met, slot, got, delivered, lost, event>>
    /\ UNCHANGED <<source, phase, parserVars, queryVars>>

NextSlot ==
    \/ Callback
    \/ Hover
    \/ TestSlot
    \/ StartWorker
    \/ ReadSlot
    \/ ClearSlot
    \/ \E t \in 1..(MaxThreads + 1) :
           \/ Call(t)
           \/ Check(t)
           \/ Acquire(t)
           \/ t \in Threads /\ Completions(t)
           \/ WriteSlot(t)
           \/ Trigger(t)
           \/ BodyReturns(t)
           \/ BodyRaises(t)
           \/ Release(t)

SpecSlot == InitSlot /\ [][NextSlot]_vars

----------------------------------------------------------------------------
(* The CTest command (cmaketools.py).  Thread 0 executes _ctest; thread 1  *)
(* is the thread that the cmaketools_build command issued by _ctest starts *)
(* with _build; the threads 2..MaxThreads belong to commands that the user *)
(* may run meanwhile, each a configure or a build.  _configure and _build  *)
(* are gated by call_once, _ctest is not.                                  *)

\* the CTest command was run and its thread started; BUILD_EVENT is as
\* earlier builds left it
InitCtest ==
    /\ source = <<>>
    /\ phase = "new"
    /\ IdleParser
    /\ IdleQuery
    /\ lock = 0
    /\ pc = [t \in 0..MaxThreads |->
                IF t = 0 THEN "clear" ELSE IF t = 1 THEN "unborn" ELSE "idle"]
    /\ ran = {}
    /\ blocked = {}
    /\ met = [t \in 0..MaxThreads |-> {}]
    /\ slot = None
    /\ got = None
    /\ delivered = {}
    /\ lost = {}
    /\ pending = 0
    /\ event \in BOOLEAN

\* BUILD_EVENT.clear()
ClearEvent ==
    /\ pc[0] = "clear"
    /\ event' = FALSE
    /\ pc' = [pc EXCEPT ![0] = "issue"]
    /\ UNCHANGED <<lock, ran, blocked, met, slot, got, delivered, lost,
                   pending>>
    /\ UNCHANGED <<source, phase, parserVars, queryVars>>

\* self.view.run_command("cmaketools_build"): CmaketoolsBuildCommand.run
\* starts a thread with target _build
IssueBuild ==
    /\ pc[0] = "issue"
    /\ pc' = [pc EXCEPT ![0] = "wait", ![1] = "idle"]
    /\ UNCHANGED <<lock, ran, blocked, met, slot, got, delivered, lost,
                   pending, event>>
    /\ UNCHANGED <<source, phase, parserVars, queryVars>>

\* BUILD_EVENT.wait() returns once the event is set
WaitEvent ==
    /\ pc[0] = "wait"
    /\ event
    /\ pc' = [pc EXCEPT ![0] = "ctest"]
    /\ UNCHANGED <<lock, ran, blocked, met, slot, got, delivered, lost,
                   pending, event>>
    /\ UNCHANGED <<source, phase, parserVars, queryVars>>

\* ret = cmake_build.ctest(build_dir=build_path, build_type=build_type)
RunCtest ==
    /\ pc[0] = "ctest"
    /\ pc' = [pc EXCEPT ![0] = "tested"]
    /\ UNCHANGED <<lock, ran, blocked, met, slot, got, delivered, lost,
                   pending, event>>
    /\ UNCHANGED <<source, phase, parserVars, queryVars>>

\* _build: cmake_build.build(...) has returned or raised and the finally
\* clause is entered.  (message_busy, which wraps _build inside call_once,
\* can raise before _build is entered: that is BodyRaises.)
BuildEnds(t) ==
    /\ pc[t] = "body"
    /\ pc' = [pc EXCEPT ![t] = "set"]
    /\ UNCHANGED <<lock, ran, blocked, met, slot, got, delivered, lost,
                   pending, event>>
    /\ UNCHANGED <<source, phase, parserVars, queryVars>>

\* _build: finally: BUILD_EVENT.set()
SetEvent(t) ==
    /\ pc[t] = "set"
    /\ event' = TRUE
    /\ pc' = [pc EXCEPT ![t] = "exit_ok"]
    /\ UNCHANGED <<lock, ran, blocked, met, slot, got, delivered, lost,
                   pending>>
    /\ UNCHANGED <<source, phase, parserVars, queryVars>>

NextCtest ==
    \/ ClearEvent
    \/ IssueBuild
    \/ WaitEvent
    \/ RunCtest
    \/ \E t \in Threads :
           \/ Call(t)
           \/ Check(t)
           \/ Acquire(t)
           \/ BuildEnds(t)
           \/ SetEvent(t)
           \/ t # 1 /\ BodyReturns(t)
           \/ BodyRaises(t)
           \/ Release(t)

\* Every started thread goes on running: the _ctest thread, the thread of
\* the build that _ctest issued from its start, and the thread of another
\* command once the user has run it; a body that was entered ends.
\* Whether the user runs another command at all is not promised.
SpecCtest ==
    /\ InitCtest
    /\ [][NextCtest]_vars
    /\ WF_vars(ClearEvent \/ IssueBuild \/ WaitEvent \/ RunCtest)
    /\ WF_vars(Call(1))
    /\ \A t \in Threads :
           /\ WF_vars(Check(t))
           /\ WF_vars(Acquire(t))
           /\ WF_vars(BuildEnds(t) \/ BodyRaises(t) \/ (t # 1 /\ BodyReturns(t)))
           /\ WF_vars(SetEvent(t))
           /\ WF_vars(Release(t))

\* the methods of CMakeParser that parse one construct from self.offset on
Productions ==
    {"get_file_element", "get_eof", "get_command_invocation", "get_space",
     "get_newline", "get_arguments", "get_argument", "get_grouped_arguments",
     "get_bracket", "get_bracket_argument", "get_quoted_argument",
     "get_unquoted_argument", "get_comment"}

Production(name, s, off) ==
    CASE name = "get_file_element" -> get_file_element(s, off)
      [] name = "get_eof" -> get_eof(s, off)
      [] name = "get_command_invocation" -> get_command_invocation(s, off)
      [] name = "get_space" -> get_space(s, off)
      [] name = "get_newline" -> get_newline(s, off)
      [] name = "get_arguments" -> get_arguments(s, off)
      [] name = "get_argument" -> get_argument(s, off)
      [] name = "get_grouped_arguments" -> get_grouped_arguments(s, off)
      [] name = "get_bracket" -> get_bracket(s, off)
      [] name = "get_bracket_argument" -> get_bracket_argument(s, off)
      [] name = "get_quoted_argument" -> get_quoted_argument(s, off)
      [] name = "get_unquoted_argument" -> get_unquoted_argument(s, off)
      [] name = "get_comment" -> get_comment(s, off)

\* CMakeParser(source) for one of the short texts or of the samples
InitParser ==
    /\ source \in WideTexts \cup Samples
    /\ phase = "new"
    /\ tree = Unset
    /\ text = Unset
    /\ formatted = Unset
    /\ reformatted = Unset
    /\ index = 0
    /\ offset = 0
    /\ pos = Unset
    /\ pat = ""
    /\ match = Unset
    /\ cursor = 0
    /\ IdleQuery
    /\ IdleThreads

\* one production p of CMakeParser(source) called with self.offset = k:
\* match is what it gave, cursor is self.offset when it returned or raised
Produce ==
    /\ phase = "new"
    /\ \E k \in 0..Len(source), p \in Productions :
          /\ offset' = k
          /\ pat' = p
          /\ match' = Production(p, source, k)
          /\ cursor' = Production(p, source, k).off
    /\ phase' = "produced"
    /\ UNCHANGED <<source, tree, text, formatted, reformatted, index, pos>>
    /\ UNCHANGED <<queryVars, threadVars>>

NextProductions == Produce

SpecProductions == InitParser /\ [][NextProductions]_vars

\* CMakeParser(source) for one of the short texts or of the samples.
\* get_file_element depends on the source and on self.offset only: match
\* holds what it gives at each offset, and a turn of the loop looks it up.
InitLoop ==
    /\ source \in WideTexts \cup Samples
    /\ phase = "new"
    /\ tree = Unset
    /\ text = Unset
    /\ formatted = Unset
    /\ reformatted = Unset
    /\ index = 0
    /\ offset = 0
    /\ pos = Unset
    /\ pat = ""
    /\ match = [k \in 0..Len(source) |-> get_file_element(source, k)]
    /\ cursor = 0
    /\ IdleQuery
    /\ IdleThreads

\* parse(): self.offset = 0, and _parse begins with temp = []
BeginParse ==
    /\ phase = "new"
    /\ offset' = 0
    /\ tree' = List(<<>>)
    /\ phase' = "looping"
    /\ UNCHANGED <<source, text, formatted, reformatted, index, pos, pat,
                   match, cursor>>
    /\ UNCHANGED <<queryVars, threadVars>>

\* _parse without the break after the EOF token
ParseTurn_NoBreak(temp, r) ==
    IF r.st = "raise" THEN r.val
    ELSE IF ~Truthy(r.val) THEN Node("File", "file", temp.items)
    ELSE List(Append(temp.items, r.val))

\* what _parse has when get_file_element gave r and temp is the list of the
\* children so far: the exception, the File when the loop ends (child not
\* true, or the EOF token appended), else temp with the child appended
ParseTurn(temp, r) ==
    IF r.st = "raise" THEN r.val
    ELSE IF ~Truthy(r.val) THEN Node("File", "file", temp.items)
    ELSE IF r.val.kind = "eof"
    THEN Node("File", "file", Append(temp.items, r.val))
    ELSE List(Append(temp.items, r.val))

\* one turn of the loop of _parse: child := self.get_file_element(); tree
\* is temp while the loop runs and what parse() gives when it has ended
ParseStep ==
    /\ phase = "looping"
    /\ tree' = ParseTurn(tree, match[offset])
    /\ offset' = match[offset].off
    /\ phase' = (IF ParseTurn(tree, match[offset]).cls = "list"
                 THEN "looping" ELSE "parsed")
    /\ UNCHANGED <<source, text, formatted, reformatted, index, pos, pat,
                   match, cursor>>
    /\ UNCHANGED <<queryVars, threadVars>>

NextLoop ==
    \/ BeginParse
    \/ ParseStep

\* parse() runs on one thread and nothing suspends it: a turn of the loop
\* that can be taken is taken
SpecLoop == InitLoop /\ [][NextLoop]_vars /\ WF_vars(NextLoop)

----------------------------------------------------------------------------
(* Properties *)

\* the states in which tree holds the result of parse(source)
Parsed == phase \in {"parsed", "text", "file_formatted", "arguments_formatted"}

\* the states in which formatted holds the result of formatting a whole file
FileFormatted == phase \in {"file_formatted", "formatted", "reformatted"}

\* C1: round-trip identity: whenever parse(source) returned a File, reading
\* its .text gives the source back exactly.
C1_RoundTrip ==
    phase = "text" => (text.cls = "str" /\ text.val = source)

\* C2: idempotent formatting: for a source that parses, format_source
\* returns a text f, f parses, and formatting f gives f again.
C2_Idempotent ==
    /\ (phase = "formatted" /\ parse(source).cls = "File") =>
           (formatted.cls = "str" /\ parse(formatted.val).cls = "File")
    /\ phase = "reformatted" =>
           (reformatted.cls = "str" /\ reformatted.val = formatted.val)

\* C3: the syntax error is the only error channel: parse returns a File or
\* raises SyntaxError, whatever the offset of the failure.
C3_OnlySyntaxError ==
    phase = "parsed" => tree.cls \in {"File", "SyntaxError"}

\* C4: format_file returns a string for every File that parse returned.
C4_FormatFileCompletes ==
    phase = "file_formatted" => formatted.cls = "str"

\* command(a b)
FmtSpaced ==
    <<"c", "o", "m", "m", "a", "n", "d", "(", "a", " ", "b", ")">>

\* C5: whitespace collapse: command(   a    b ) formats to command(a b):
\* the Space after '(' and the Space before ')' are deleted and the run of
\* spaces between a and b becomes one space.
C5_WhitespaceCollapse ==
    /\ (FileFormatted /\ source = SrcSpaced) =>
           (formatted.cls = "str"
            /\ formatted.val \in {FmtSpaced, FmtSpaced \o <<"\n">>})
    /\ (phase = "arguments_formatted" /\ source = SrcSpaced) =>
           (formatted.cls = "str" /\ formatted.val = <<"a", " ", "b">>)

\* txt holds no run of more than n consecutive empty lines: it does not
\* begin with n + 1 newlines and nowhere holds n + 2 newlines in a row
NoBlankRunOver(txt, n) ==
    /\ ~(Len(txt) >= n + 1 /\ \A j \in 1..(n + 1) : txt[j] = "\n")
    /\ \A i \in 1..Len(txt) :
          ~(i + n + 1 <= Len(txt) /\ \A j \in i..(i + n + 1) : txt[j] = "\n")

\* C6: blank-line clamp: a text that format_file returns holds no run of
\* more than 3 consecutive empty lines, and a text that format_arguments
\* returns for an argument list holds no run of more than 1.
C6_BlankLineClamp ==
    /\ (FileFormatted /\ formatted.cls = "str") =>
           NoBlankRunOver(formatted.val, 3)
    /\ (phase = "reformatted" /\ reformatted.cls = "str") =>
           NoBlankRunOver(reformatted.val, 3)
    /\ (phase = "arguments_formatted" /\ formatted.cls = "str") =>
           NoBlankRunOver(formatted.val, 1)

\* the ten empty lines of SrcBlankLines have become three
C6_Witness ==
    /\ phase = "file_formatted"
    /\ source = SrcBlankLines
    /\ formatted.cls = "str"
    /\ formatted.val = <<"#", "a", "\n", "\n", "\n", "\n", "#", "b", "\n">>

\* C7: a non-empty text that format_file returns ends with exactly one
\* newline: its last character is a newline and the one before is not.
C7_OneTrailingNewline ==
    (FileFormatted /\ formatted.cls = "str" /\ formatted.val # <<>>) =>
        /\ formatted.val[Len(formatted.val)] = "\n"
        /\ (Len(formatted.val) > 1 =>
                formatted.val[Len(formatted.val) - 1] # "\n")

\* the number of Argument leaves among the elements of a list
ArgumentLeaves(l) ==
    Cardinality({i \in 1..Len(l.items) : l.items[i].cls \in ArgumentClasses})

\* the positions of the GroupedArguments among the elements of a list
GroupsIn(l) ==
    {i \in 1..Len(l.items) : l.items[i].cls = "GroupedArguments"}

\* the 1-based position of the first '(' of s, 0 when it has none
FirstParen(s) ==
    IF \E j \in 1..Len(s) : s[j] = "("
    THEN CHOOSE j \in 1..Len(s) : s[j] = "(" /\ \A k \in 1..(j - 1) : s[k] # "("
    ELSE 0

\* s is name(w1 w2 ... wn): a name, '(', words of letters separated by
\* single spaces, ')'
IsWordsCommand(s) ==
    /\ FirstParen(s) > 1
    /\ s[Len(s)] = ")"
    /\ \A j \in 1..(FirstParen(s) - 1) : s[j] \in Lower
    /\ \A j \in (FirstParen(s) + 1)..(Len(s) - 1) :
          \/ s[j] \in Lower
          \/ s[j] = " " /\ s[j - 1] \in Lower /\ s[j + 1] \in Lower

\* n of name(w1 w2 ... wn): the number of places where a word begins
WordCount(s) ==
    Cardinality({j \in (FirstParen(s) + 1)..(Len(s) - 1) :
                    s[j] \in Lower /\ s[j - 1] \notin Lower})

\* the number of '(' of s at the offsets lo..hi-1 that are not inside
\* another '(' opened at or after lo
OpensAtDepthOne(s, lo, hi) ==
    Cardinality({k \in lo..(hi - 1) :
        /\ s[k + 1] = "("
        /\ Cardinality({j \in lo..(k - 1) : s[j + 1] = "("})
           = Cardinality({j \in lo..(k - 1) : s[j + 1] = ")"})})

\* a GroupedArguments is '(' , the list of its own arguments, ')'
IsGroup(g) ==
    /\ Len(g.items) = 3
    /\ g.items[1].cls = "Token" /\ g.items[1].kind = "lparen"
    /\ g.items[2].cls = "list"
    /\ g.items[3].cls = "Token" /\ g.items[3].kind = "rparen"

\* the texts of the Argument leaves of a list, in order
ArgumentTexts(l) ==
    Let(SelectSeq(l.items, LAMBDA e : e.cls \in ArgumentClasses), LAMBDA leaves :
        [i \in 1..Len(leaves) |-> LeafText(leaves[i])])

\* source holds none of the characters that take a parenthesis out of the
\* structure: a comment mark, a quote, a bracket, a backslash
PlainParens ==
    \A j \in 1..Len(source) : source[j] \notin {"#", "\"", "[", "\\"}

\* C8: argument structure: name(w1 ... wn) parses to exactly n Argument
\* leaves; every parenthesized group of an argument list is one
\* GroupedArguments element of that list holding '(' , the list of its own
\* arguments and ')'; command(a (b c) d) gives a, the group and d at the top
\* level and b, c inside the group.
C8_ArgumentStructure ==
    /\ (Parsed /\ IsWordsCommand(source)) =>
           /\ tree.cls = "File"
           /\ Len(tree.children) = 2
           /\ tree.children[1].cls = "CommandInvocation"
           /\ ArgumentLeaves(ArgumentsOf(tree.children[1])) = WordCount(source)
           /\ GroupsIn(ArgumentsOf(tree.children[1])) = {}
    /\ (Parsed /\ tree.cls = "File") =>
           \A c \in 1..Len(tree.children) :
               tree.children[c].cls = "CommandInvocation" =>
                   Let(ArgumentsOf(tree.children[c]), LAMBDA args :
                       /\ \A g \in GroupsIn(args) : IsGroup(args.items[g])
                       /\ PlainParens =>
                              Cardinality(GroupsIn(args)) =
                                  OpensAtDepthOne(source,
                                      tree.children[c].children[
                                          ArgumentIndex(tree.children[c].children)
                                      ].pos + 1,
                                      tree.children[c].children[
                                          Len(tree.children[c].children)].pos))
    /\ (Parsed /\ source = SrcGrouped) =>
           /\ tree.cls = "File"
           /\ Let(ArgumentsOf(tree.children[1]), LAMBDA args :
                  /\ ArgumentTexts(args) = <<<<"a">>, <<"d">>>>
                  /\ Cardinality(GroupsIn(args)) = 1
                  /\ args.items[3].cls = "GroupedArguments"
                  /\ ArgumentTexts(args.items[3].items[2]) = <<<<"b">>, <<"c">>>>
                  /\ GroupsIn(args.items[3].items[2]) = {})

\* command(a (b c) d) has been parsed
C8_Witness ==
    /\ phase = "parsed"
    /\ source = SrcGrouped
    /\ tree.cls = "File"
    /\ ArgumentsOf(tree.children[1]).items[3].cls = "GroupedArguments"

\* the 1-based row of offset k of s: one more than the newlines before the
\* character that precedes it
RowOf(s, k) == 1 + Cardinality({j \in 1..(k - 1) : s[j] = "\n"})

\* the length of the text between the last newline before the character
\* that precedes offset k and offset k
ColOf(s, k) ==
    IF \E j \in 1..(k - 1) : s[j] = "\n"
    THEN k - (CHOOSE j \in 1..(k - 1) :
                  s[j] = "\n" /\ \A i \in (j + 1)..(k - 1) : s[i] # "\n")
    ELSE k

\* every character of source but ')' begins an argument: source holds no
\* bracket, '=', quote or backslash
ArgumentsToTheEnd ==
    \A j \in 1..Len(source) : source[j] \notin {"[", "]", "=", "\"", "\\"}

\* C9: syntax error positioning: a missing ')' is reported at rowcol of the
\* offset where it was required.  In a text whose every character but ')'
\* begins an argument that offset is the end of the text; for foo( it is
\* offset 4: row 1, col 4.
C9_ErrorPosition ==
    /\ (phase = "parsed" /\ tree.cls = "SyntaxError"
        /\ tree.msg = "require closing ')'" /\ ArgumentsToTheEnd) =>
           /\ tree.row = RowOf(source, Len(source))
           /\ tree.col = ColOf(source, Len(source))
    /\ (phase = "parsed" /\ source = SrcUnterminated) =>
           /\ tree.cls = "SyntaxError"
           /\ tree.msg = "require closing ')'"
           /\ tree.row = 1
           /\ tree.col = 4

\* foo( has been parsed
C9_Witness ==
    /\ phase = "parsed"
    /\ source = SrcUnterminated
    /\ tree.cls = "SyntaxError"
    /\ tree.col = 4

\* C10: rowcol reports the 1-based row and the 1-based column of the
\* character at the given offset: rowcol("a\nbc\n", 3), where offset 3 is
\* the character `c`, is row 2, col 2.
C10_RowColExample ==
    (phase = "located" /\ source = SrcTwoLines /\ offset = 3) =>
        (pos.cls = "TextPos" /\ pos.row = 2 /\ pos.col = 2)

\* the lines of source[:offset], split keeping the line terminators
PrefixLines == splitlines(Slice(source, 0, offset), TRUE)

\* C11: for every text and every offset from 0 to its length, rowcol
\* returns, without raising, a TextPos whose row is the number of lines of
\* text[:offset], at least 1, and whose col is the length of the last of
\* those lines.
C11_RowColTotal ==
    phase = "located" =>
        /\ pos.cls = "TextPos"
        /\ pos.row >= 1
        /\ pos.row = Len(PrefixLines)
        /\ pos.col = Len(PrefixLines[Len(PrefixLines)])

\* body holds no ']'
NoRBracket(body) == \A j \in 1..Len(body) : body[j] # "]"

\* the tokens of [=*[ body ]=*] whose first '[' is at offset at, with n '='
\* in the opener and m in the closer
BracketLeafTokens(at, n, body, m) ==
    <<Token(at, "lbracket", <<"[">> \o Equals(n) \o <<"[">>),
      Token(at + n + 2, "text", body),
      Token(at + n + 2 + Len(body), "rbracket", <<"]">> \o Equals(m) \o <<"]">>)>>

\* the number of '=' that follow the character at offset at of source
EqualsAfter(at) == RunLen(source, at + 1, {"="})

\* what lies between an opener with n '=' whose '[' is at offset at and a
\* closer with m '=' that ends tail characters before the end of source
BodyBetween(at, n, m, tail) ==
    Slice(source, at + n + 2, Len(source) - tail - m - 2)

\* source is #[=*[ body ]=*] with equal counts of '=' and no ']' in body
IsBracketComment ==
    /\ NoRBracket(BodyBetween(1, EqualsAfter(1), EqualsAfter(1), 0))
    /\ source = BracketCommentSrc(EqualsAfter(1),
                    BodyBetween(1, EqualsAfter(1), EqualsAfter(1), 0),
                    EqualsAfter(1))

\* source is f([=*[ body ]=*]) with equal counts of '=' and no ']' in body
IsBracketArgument ==
    /\ NoRBracket(BodyBetween(2, EqualsAfter(2), EqualsAfter(2), 1))
    /\ source = BracketArgumentSrc(EqualsAfter(2),
                    BodyBetween(2, EqualsAfter(2), EqualsAfter(2), 1),
                    EqualsAfter(2))

\* C12: a bracket comment #[=*[body]=*] with equal counts of '=' and no ']'
\* in body parses as exactly one BracketComment with the tokens CommentMark,
\* LBracket, Text, RBracket whose Text is exactly body (#[==[text]==] has
\* the inner text text); the same bracket as an argument parses as exactly
\* one BracketArgument whose Text is exactly body.
C12_BracketLeaf ==
    /\ (Parsed /\ IsBracketComment) =>
           /\ tree.cls = "File"
           /\ Len(tree.children) = 2
           /\ tree.children[1] =
                  Leaf("BracketComment", "bracket_comment",
                       <<Token(0, "commentmark", <<"#">>)>>
                       \o BracketLeafTokens(1, EqualsAfter(1),
                              BodyBetween(1, EqualsAfter(1), EqualsAfter(1), 0),
                              EqualsAfter(1)))
           /\ tree.children[2].kind = "eof"
    /\ (Parsed /\ IsBracketArgument) =>
           /\ tree.cls = "File"
           /\ Len(tree.children) = 2
           /\ tree.children[1].cls = "CommandInvocation"
           /\ ArgumentsOf(tree.children[1]).items =
                  <<Leaf("BracketArgument", "bracket_argument",
                         BracketLeafTokens(2, EqualsAfter(2),
                             BodyBetween(2, EqualsAfter(2), EqualsAfter(2), 1),
                             EqualsAfter(2)))>>
    /\ (Parsed /\ source = SrcBracketComment) =>
           /\ tree.cls = "File"
           /\ tree.children[1].cls = "BracketComment"
           /\ Len(tree.children[1].tokens) = 4
           /\ tree.children[1].tokens[3].kind = "text"
           /\ tree.children[1].tokens[3].text = <<"t", "e", "x", "t">>

\* #[==[text]==] has been parsed to a bracket comment
C12_Witness ==
    /\ phase = "parsed"
    /\ source = SrcBracketComment
    /\ IsBracketComment
    /\ tree.cls = "File"
    /\ tree.children[1].cls = "BracketComment"

\* the classes of the leaves a bracket closes into
BracketClasses == {"BracketComment", "BracketArgument"}

\* source is #[=*[ body ]=*] whose closer has m '=', m not the count of
\* the opener, and no ']' in body
IsMismatchedComment(m) ==
    /\ m # EqualsAfter(1)
    /\ NoRBracket(BodyBetween(1, EqualsAfter(1), m, 0))
    /\ source = BracketCommentSrc(EqualsAfter(1),
                    BodyBetween(1, EqualsAfter(1), m, 0), m)

\* source is f([=*[ body ]=*]) whose closer has m '=', m not the count of
\* the opener, and no ']' in body
IsMismatchedArgument(m) ==
    /\ m # EqualsAfter(2)
    /\ NoRBracket(BodyBetween(2, EqualsAfter(2), m, 1))
    /\ source = BracketArgumentSrc(EqualsAfter(2),
                    BodyBetween(2, EqualsAfter(2), m, 1), m)

\* C13: a bracket is closed only by a closer with as many '=' as its
\* opener: a text whose only closer has another count (#[==[text]=]) does
\* not parse to a tree that holds a closed bracket leaf.
C13_EqualCountCloses ==
    /\ (Parsed /\ \E m \in 0..MaxEq : IsMismatchedComment(m)) =>
           ~(tree.cls = "File" /\ tree.children[1].cls \in BracketClasses)
    /\ (Parsed /\ \E m \in 0..MaxEq : IsMismatchedArgument(m)) =>
           ~(/\ tree.cls = "File"
             /\ \E i \in 1..Len(ArgumentsOf(tree.children[1]).items) :
                   ArgumentsOf(tree.children[1]).items[i].cls \in BracketClasses)
    /\ (Parsed /\ source = SrcBracketMismatch) =>
           ~(tree.cls = "File" /\ tree.children[1].cls \in BracketClasses)

RECURSIVE AllLeaves(_)
\* the leaves of a tree, in order: those of the children of a node and of
\* the elements of a list
AllLeaves(v) ==
    IF v.cls \in LeafClasses THEN <<v>>
    ELSE IF v.cls \in NodeClasses
    THEN Concat([i \in 1..Len(v.children) |-> AllLeaves(v.children[i])])
    ELSE IF v.cls \in ListClasses
    THEN Concat([i \in 1..Len(v.items) |-> AllLeaves(v.items[i])])
    ELSE <<>>

\* the leaves of class c of the parsed tree
LeavesOf(c) == SelectSeq(AllLeaves(tree), LAMBDA l : l.cls = c)

\* every quote of body follows a backslash, and body does not end with one
QuotesEscaped(body) ==
    /\ body # <<>>
    /\ body[Len(body)] # "\\"
    /\ \A j \in 1..Len(body) : body[j] = "\"" => (j > 1 /\ body[j - 1] = "\\")

\* a QuotedArgument is Quote, Text, Quote (Quote, Quote when nothing lies
\* between), delimited by the quotes at its ends, and Text is the source
\* between them
IsQuotedLeaf(l) ==
    /\ Len(l.tokens) \in {2, 3}
    /\ l.tokens[1].kind = "quote" /\ l.tokens[1].text = <<"\"">>
    /\ l.tokens[Len(l.tokens)].kind = "quote"
    /\ l.tokens[Len(l.tokens)].text = <<"\"">>
    /\ source[l.tokens[1].pos + 1] = "\""
    /\ source[l.tokens[Len(l.tokens)].pos + 1] = "\""
    /\ Len(l.tokens) = 2 => l.tokens[2].pos = l.tokens[1].pos + 1
    /\ Len(l.tokens) = 3 =>
           /\ l.tokens[2].kind = "text"
           /\ l.tokens[2].pos = l.tokens[1].pos + 1
           /\ l.tokens[2].text =
                  Slice(source, l.tokens[1].pos + 1, l.tokens[3].pos)
           /\ \A j \in 1..Len(l.tokens[2].text) :
                  l.tokens[2].text[j] = "\"" =>
                      (j > 1 /\ l.tokens[2].text[j - 1] = "\\")
    /\ LeafText(l) =
           Slice(source, l.tokens[1].pos, l.tokens[Len(l.tokens)].pos + 1)

\* body of f("body")
QuotedBody == Slice(source, 3, Len(source) - 2)

\* the text a \"b\" c
TextEscapedQuote == <<"a", " ", "\\", "\"", "b", "\\", "\"", " ", "c">>

\* C14: inside a quoted argument a backslash-quote pair does not end the
\* argument: the QuotedArgument is Quote, Text, Quote where Text is the raw
\* run of characters between the delimiting quotes (foo("a \"b\" c") gives
\* the Text a \"b\" c), and the leaf's text is the slice of the source it
\* was read from.
C14_EscapedQuote ==
    /\ (Parsed /\ tree.cls = "File") =>
           \A i \in 1..Len(LeavesOf("QuotedArgument")) :
               IsQuotedLeaf(LeavesOf("QuotedArgument")[i])
    /\ (Parsed /\ source = QuotedSrc(QuotedBody) /\ QuotesEscaped(QuotedBody)) =>
           /\ tree.cls = "File"
           /\ ArgumentsOf(tree.children[1]).items =
                  <<Leaf("QuotedArgument", "quoted_argument",
                         <<Token(2, "quote", <<"\"">>),
                           Token(3, "text", QuotedBody),
                           Token(3 + Len(QuotedBody), "quote", <<"\"">>)>>)>>
    /\ (Parsed /\ source = SrcEscapedQuote) =>
           /\ tree.cls = "File"
           /\ ArgumentsOf(tree.children[1]).items =
                  <<Leaf("QuotedArgument", "quoted_argument",
                         <<Token(4, "quote", <<"\"">>),
                           Token(5, "text", TextEscapedQuote),
                           Token(14, "quote", <<"\"">>)>>)>>

\* foo("a \"b\" c") has been parsed to one quoted argument
C14_Witness ==
    /\ phase = "parsed"
    /\ source = SrcEscapedQuote
    /\ tree.cls = "File"
    /\ Len(LeavesOf("QuotedArgument")) = 1
    /\ LeafText(LeavesOf("QuotedArgument")[1]) = <<"\"">> \o TextEscapedQuote \o <<"\"">>

\* the characters that end an unquoted argument unless escaped: space, tab,
\* newline and the punctuation; the backslash is the escape itself
Separators == {" ", "\t", "\n"} \cup (Punctuation \ {"\\"})

\* no separator of txt stands without a backslash before it
NoBareSeparator(txt) ==
    \A j \in 1..Len(txt) :
        txt[j] \in Separators => (j > 1 /\ txt[j - 1] = "\\")

\* an UnquotedArgument whose text is txt, read at offset at
UnquotedLeaf(at, txt) ==
    Leaf("UnquotedArgument", "unquoted_argument", <<Token(at, "text", txt)>>)

\* C15: the text of every UnquotedArgument of a parsed tree holds no
\* unescaped space, tab or newline and no unescaped punctuation; two words
\* separated only by a newline in an argument list are two Argument leaves
\* with a Newline token between them.
C15_UnquotedExcludes ==
    /\ (Parsed /\ tree.cls = "File") =>
           \A i \in 1..Len(LeavesOf("UnquotedArgument")) :
               NoBareSeparator(LeafText(LeavesOf("UnquotedArgument")[i]))
    /\ (Parsed /\ source = SrcNewlineWords) =>
           /\ tree.cls = "File"
           /\ ArgumentsOf(tree.children[1]).items =
                  <<UnquotedLeaf(4, <<"a">>), Token(5, "newline", <<"\n">>),
                    UnquotedLeaf(6, <<"b">>)>>

\* C16: a backslash followed by a character of the punctuation (or by a
\* space) is accepted inside an unquoted argument: foo(a\(b) parses to a
\* single UnquotedArgument whose text is a\(b.
C16_EscapeAccepted ==
    /\ (Parsed /\ source = SrcEscapedParen) =>
           /\ tree.cls = "File"
           /\ ArgumentsOf(tree.children[1]).items =
                  <<UnquotedLeaf(4, <<"a", "\\", "(", "b">>)>>
    /\ (Parsed /\ Len(source) = 5 /\ source = ArgumentSrc(Slice(source, 2, 4))
        /\ source[3] = "\\" /\ source[4] \in Punctuation \cup {" "}) =>
           /\ tree.cls = "File"
           /\ ArgumentsOf(tree.children[1]).items =
                  <<UnquotedLeaf(2, Slice(source, 2, 4))>>

\* the messages of the SyntaxError raised for an absent closing terminal
ClosingMessages ==
    {"require closing ')'", "require closing '\"'", "require closing ']=*]'"}

\* the offset after the identifier that begins source and the spaces that
\* follow it
AfterIdentifier ==
    1 + RunLen(source, 1, IdentChar)
    + RunLen(source, 1 + RunLen(source, 1, IdentChar), SpaceChars)

\* source begins with an identifier
BeginsWithIdentifier == source # <<>> /\ source[1] \in IdentStart

\* source holds the character c
Holds(c) == \E j \in 1..Len(source) : source[j] = c

\* source begins with the characters of prefix
BeginsWith(prefix) ==
    Len(source) >= Len(prefix) /\ SubSeq(source, 1, Len(prefix)) = prefix

\* source begins with [=*[ at offset at
BeginsBracketAt(at) ==
    /\ CharAt(source, at) = "["
    /\ CharAt(source, at + 1 + EqualsAfter(at)) = "["

\* C17: whenever a required terminal is absent ('(' after the identifier of
\* a command and its spaces, the closing ')', the closing quote, the closing
\* bracket), parse raises SyntaxError and returns no tree: no other
\* production is tried and no partial File is made.
C17_RequiredTerminal ==
    /\ (Parsed /\ BeginsWithIdentifier /\ CharAt(source, AfterIdentifier) # "(") =>
           /\ tree.cls = "SyntaxError"
           /\ tree.msg = "requires '(' after identifier"
    /\ (Parsed /\ BeginsWithIdentifier /\ CharAt(source, AfterIdentifier) = "("
        /\ ~Holds(")")) =>
           /\ tree.cls = "SyntaxError"
           /\ tree.msg \in ClosingMessages
    /\ (Parsed /\ BeginsWith(<<"f", "(", "\"">>)
        /\ \A j \in 4..Len(source) : source[j] # "\"") =>
           /\ tree.cls = "SyntaxError"
           /\ tree.msg = "require closing '\"'"
    /\ (Parsed /\ ~Holds("]")
        /\ \/ BeginsWith(<<"#">>) /\ BeginsBracketAt(1)
           \/ BeginsWith(<<"f", "(">>) /\ BeginsBracketAt(2)) =>
           /\ tree.cls = "SyntaxError"
           /\ tree.msg = "require closing ']=*]'"
    /\ Parsed =>
           /\ tree.cls \in {"File", "SyntaxError", "IndexError"}
           /\ tree.cls = "IndexError" =>
                  (source # <<>>
                   /\ source[1] \notin IdentStart \cup SpaceChars \cup {"#", "\n"})
           /\ tree.cls = "File" =>
                  /\ tree.children[Len(tree.children)].kind = "eof"
                  /\ tree.children[Len(tree.children)].pos = Len(source)
                  /\ \A c \in 1..(Len(tree.children) - 1) :
                         tree.children[c].kind # "eof"

\* foo( has been parsed: its ')' is absent, and no tree was returned
C17_Witness ==
    /\ phase = "parsed"
    /\ source = SrcUnterminated
    /\ ~Holds(")")
    /\ tree.cls = "SyntaxError"
    /\ tree.msg = "require closing ')'"

\* the terminals that are one given character
CharacterOf(p) ==
    CASE p = "lparen" -> "("
      [] p = "rparen" -> ")"
      [] p = "quote" -> "\""
      [] p = "comment_mark" -> "#"
      [] p = "newline" -> "\n"

\* C18: eat_match matches only at the current offset, never further on.  On
\* a match it returns pos equal to the offset before the call and text equal
\* to source[pos:pos+len(text)], and sets the offset to pos+len(text); on no
\* match it returns None and leaves the offset unchanged.  It never raises
\* for a text that does not match.
C18_EatMatch ==
    phase = "matched" =>
        /\ match.cls \in {"MatchResult", "None"}
        /\ match.cls = "MatchResult" =>
               /\ match.pos = offset
               /\ offset + Len(match.text) <= Len(source)
               /\ match.text = Slice(source, offset, offset + Len(match.text))
               /\ cursor = offset + Len(match.text)
        /\ match.cls = "None" => cursor = offset
        /\ pat \in {"lparen", "rparen", "quote", "comment_mark", "newline"} =>
               (match.cls = "MatchResult" <=>
                    CharAt(source, offset) = CharacterOf(pat))
        /\ (pat = "space" /\ CharAt(source, offset) \notin SpaceChars) =>
               match.cls = "None"
        /\ (pat = "ident" /\ CharAt(source, offset) \notin IdentStart) =>
               match.cls = "None"

\* eat_match has matched two characters from offset 1 on
C18_Witness ==
    /\ phase = "matched"
    /\ offset = 1
    /\ match.cls = "MatchResult"
    /\ match.pos = 1
    /\ Len(match.text) = 2
    /\ cursor = 3

\* the phases a call of the formatter ends in
FormatterPhases ==
    {"file_formatted", "arguments_formatted", "formatted", "reformatted"}

\* C19: formatting has no side effects on its inputs: a call of
\* format_source, format_file or format_arguments leaves the source text
\* and the parsed File (its children lists and every token's pos, kind and
\* text) as they were before the call.
C19_NoSideEffects ==
    [][(phase' \in FormatterPhases /\ phase' # phase) =>
           (source' = source /\ tree' = tree)]_vars

\* format_file has returned a text other than the source, and the tree is
\* still the one parse gives for the source
C19_Witness ==
    /\ phase = "file_formatted"
    /\ tree.cls = "File"
    /\ tree = parse(source)
    /\ \E c \in 1..Len(tree.children) : tree.children[c].kind = "space"
    /\ formatted.cls = "str"
    /\ formatted.val # source

\* a occurs in b as a contiguous run of characters
IsSubstring(a, b) ==
    \E k \in 0..(Len(b) - Len(a)) : Slice(b, k, k + Len(a)) = a

\* C20: every Comment that is a direct child of the File (a line comment or
\* a bracket comment, of one line or more) is re-emitted verbatim: its
\* exact text is a contiguous part of the text format_file returns.
C20_CommentsVerbatim ==
    (phase = "file_formatted" /\ formatted.cls = "str") =>
        \A c \in 1..Len(tree.children) :
            tree.children[c].cls \in CommentClasses =>
                IsSubstring(LeafText(tree.children[c]), formatted.val)

\* the EOF tokens among the children of the File
EofChildren ==
    {c \in 1..Len(tree.children) :
        tree.children[c].cls = "Token" /\ tree.children[c].kind = "eof"}

\* C26: every File that parse returns holds exactly one EOF token: it is
\* the last child, its text is empty and its pos is len(source), so that no
\* character of the source (no final newline either) is left behind it.
C26_SingleEof ==
    (Parsed /\ tree.cls = "File") =>
        /\ EofChildren = {Len(tree.children)}
        /\ tree.children[Len(tree.children)].text = <<>>
        /\ tree.children[Len(tree.children)].pos = Len(source)

\* a command and its line ending have been parsed to a File of more
\* children than the EOF token
C26_Witness ==
    /\ Parsed
    /\ source = <<"a", "(", ")", "\n">>
    /\ tree.cls = "File"
    /\ Len(tree.children) > 1
    /\ tree.children[Len(tree.children)].kind = "eof"

RECURSIVE AllTokens(_)
\* the tokens of a tree in document order: a Token, those of a leaf, those
\* of the children of a node and of the elements of a list
AllTokens(v) ==
    IF v.cls = "Token" THEN <<v>>
    ELSE IF v.cls \in LeafClasses THEN v.tokens
    ELSE IF v.cls \in NodeClasses
    THEN Concat([i \in 1..Len(v.children) |-> AllTokens(v.children[i])])
    ELSE IF v.cls \in ListClasses
    THEN Concat([i \in 1..Len(v.items) |-> AllTokens(v.items[i])])
    ELSE <<>>

\* token.end()
TokenEnd(t) == t.pos + Len(t.text)

\* the tokens toks cover s without gap or overlap
Tiles(toks, s) ==
    /\ toks # <<>>
    /\ toks[1].pos = 0
    /\ \A i \in 1..Len(toks) :
          /\ toks[i].text = Slice(s, toks[i].pos, TokenEnd(toks[i]))
          /\ TokenEnd(toks[i]) <= Len(s)
          /\ i > 1 => toks[i].pos = TokenEnd(toks[i - 1])
    /\ TokenEnd(toks[Len(toks)]) = Len(s)

\* C28: the tokens of a File that parse returns, in document order, tile
\* the source: the first starts at offset 0, each starts where the one
\* before it ends, each text is source[start:end], and the last ends at
\* len(source).
C28_TokensTile ==
    (Parsed /\ tree.cls = "File") => Tiles(AllTokens(tree), source)

\* a command with a nested group has been parsed: its tokens are those of
\* the command, of the arguments and of the group
C28_Witness ==
    /\ Parsed
    /\ source = SrcGrouped
    /\ tree.cls = "File"
    /\ Len(AllTokens(tree)) > Len(tree.children) + 4
    /\ \E i \in 1..Len(AllTokens(tree)) : AllTokens(tree)[i].pos > 0

\* C27: no backtracking: a production that returns None leaves self.offset
\* where it was, and a production that has consumed input returns a node or
\* raises SyntaxError.  A production that returns without having consumed
\* anything returns None, the EOF token or the empty list of arguments.
C27_NoBacktracking ==
    phase = "produced" =>
        /\ cursor >= offset
        /\ match.st = "none" => cursor = offset
        /\ cursor > offset =>
               \/ match.st = "node" /\ Truthy(match.val)
               \/ match.st = "raise" /\ match.val.cls = "SyntaxError"
        /\ (match.st = "node" /\ cursor = offset) =>
               \/ pat \in {"get_eof", "get_file_element"} /\ match.val.kind = "eof"
               \/ pat = "get_arguments" /\ match.val = List(<<>>)

\* get_bracket has consumed the opener of an unclosed bracket and raised
C27_Witness ==
    /\ phase = "produced"
    /\ pat = "get_bracket"
    /\ source = <<"a", "[", "[">>
    /\ offset = 1
    /\ cursor = 3
    /\ match.st = "raise"
    /\ match.val.cls = "SyntaxError"

RECURSIVE Nesting(_)
\* how deep the parentheses of a tree nest: one level for a command
\* invocation and one for each group within a group
Nesting(v) ==
    IF v.cls \in NodeClasses
    THEN (IF v.cls = "CommandInvocation" THEN 1 ELSE 0)
         + Max({0} \cup {Nesting(v.children[i]) : i \in 1..Len(v.children)})
    ELSE IF v.cls \in ListClasses
    THEN (IF v.cls = "GroupedArguments" THEN 1 ELSE 0)
         + Max({0} \cup {Nesting(v.items[i]) : i \in 1..Len(v.items)})
    ELSE 0

\* the number of '(' of the source
LParenCount == Cardinality({j \in 1..Len(source) : source[j] = "("})

\* C29: parse() terminates on every finite source: the loop of _parse ends,
\* each turn that does not end it moves self.offset forward by one
\* character at least, each argument that get_arguments collects consumes
\* one character at least, and the tree nests no deeper than the source has
\* '(' characters.  What the loop leaves is what parse() gives.
C29_Terminates ==
    /\ <>(phase = "parsed")
    /\ [][(phase = "looping" /\ phase' = "looping") => offset' > offset]_vars
    /\ [](phase = "looping" =>
             \A k \in 0..Len(source) :
                 get_argument(source, k).st = "node" =>
                     get_argument(source, k).off > k)
    /\ [](phase = "parsed" =>
             /\ tree = parse(source)
             /\ tree.cls = "File" => Nesting(tree) <= LParenCount)

\* the loop has ended on a file of two commands after five turns
C29_Witness ==
    /\ phase = "parsed"
    /\ source = SrcTwoCommands
    /\ tree.cls = "File"
    /\ Len(tree.children) = 5
    /\ offset = Len(source)
    /\ Nesting(tree) = 1

\* the line of the script that a row names, counted from the end when the
\* row is negative; no line (None) when the script has no such line
LineOfRow ==
    IF PyIndex(row, Len(split(source))) = 0 THEN None
    ELSE Str(split(source)[PyIndex(row, Len(split(source)))])

\* the spans <<a, b>> of the maximal runs of word characters of line that
\* contain c: a <= c <= b
RunsContaining(line, c) ==
    {ab \in (0..Len(line)) \X (0..Len(line)) :
        /\ ab[1] < ab[2]
        /\ ab[1] <= c /\ c <= ab[2]
        /\ \A j \in (ab[1] + 1)..ab[2] : line[j] \in WordChars
        /\ ab[1] = 0 \/ line[ab[1]] \notin WordChars
        /\ ab[2] = Len(line) \/ line[ab[2] + 1] \notin WordChars}

\* the words of the line of the row whose span contains the column
WordsAtCursor ==
    IF LineOfRow = None THEN {}
    ELSE {Slice(LineOfRow.val, ab[1], ab[2]) :
              ab \in RunsContaining(LineOfRow.val, col)}

\* <pre>html.escape(doc)</pre>
Pre(doc) ==
    <<"<", "p", "r", "e", ">">> \o html_escape(doc)
    \o <<"<", "/", "p", "r", "e", ">">>

\* C21: a lookup miss is an empty result, not an error: for every row and
\* column, inside the text or not, help returns "" and does not raise when
\* no run of word characters of that line has a span containing the column
\* or when the name is unknown to the registry; when a run's span contains
\* the column, that run is the word looked up.
C21_LookupMiss ==
    phase = "helped" =>
        /\ answer.cls = "str"
        /\ WordsAtCursor = {} => answer.val = <<>>
        /\ \A w \in WordsAtCursor :
               answer.val = (IF w \in get_all_names
                             THEN Pre(get_cmake_documentation(w)) ELSE <<>>)

\* the text of the cursor line before the column
BeforeCursor == SliceTo(LineOfRow.val, col)

\* the number of word characters that end the text t
RECURSIVE TrailingWord(_)
TrailingWord(t) ==
    IF t # <<>> /\ t[Len(t)] \in WordChars
    THEN 1 + TrailingWord(SubSeq(t, 1, Len(t) - 1)) ELSE 0

\* the text before the cursor without the word that ends it, and that word
Stem == SubSeq(BeforeCursor, 1, Len(BeforeCursor) - TrailingWord(BeforeCursor))
CursorWord ==
    SubSeq(BeforeCursor, Len(BeforeCursor) - TrailingWord(BeforeCursor) + 1,
           Len(BeforeCursor))

\* t ends with the literal text lit, whatever the case of the letters of t
EndsWith(t, lit) ==
    /\ Len(t) >= Len(lit)
    /\ \A j \in 1..Len(lit) : ToLower(t[Len(t) - Len(lit) + j]) = lit[j]

\* t ends with cmd( for a command name cmd
EndsWithCall(t) ==
    /\ Len(t) >= 2
    /\ t[Len(t)] = "("
    /\ t[Len(t) - 1] \in WordChars

\* t ends with cmd(A B ... : after the last '(' come one word at least,
\* each followed by one space
EndsWithWords(t) ==
    \E p \in 1..Len(t) :
        /\ t[p] = "("
        /\ EndsWithCall(SubSeq(t, 1, p))
        /\ p < Len(t)
        /\ t[Len(t)] = " "
        /\ t[p + 1] \in WordChars
        /\ \A j \in (p + 1)..Len(t) :
               /\ t[j] \in WordChars \cup {" "}
               /\ (t[j] = " " /\ j < Len(t)) => t[j + 1] # " "

\* the scope the claim gives the text before the cursor
ExpectedScope ==
    IF \A j \in 1..Len(Stem) : Stem[j] \in RegexSpace THEN "command"
    ELSE IF EndsWith(Stem, <<"s", "e", "t", "(">>) THEN "setter"
    ELSE IF EndsWith(Stem, <<"$", "{">>) THEN "access"
    ELSE IF EndsWith(Stem, <<"i", "n", "c", "l", "u", "d", "e", "(">>)
    THEN "include"
    ELSE IF EndsWithCall(Stem) THEN "params"
    ELSE IF EndsWithWords(Stem) THEN "value"
    ELSE "unknown"

\* C22: get_scope classifies the text of the cursor line before the column
\* by the first pattern that matches, in the order command, setter, access,
\* include, params, value: an identifier alone on the line (after spaces
\* only) is COMMAND, text ending with set(NAME is SETTER and not PARAMS,
\* with ${NAME is ACCESS, with include(NAME is INCLUDE, with any other
\* cmd(NAME is PARAMS, with cmd(A B is VALUE, each with NAME (the word that
\* ends the text, possibly empty) as identifier; any other text is
\* (UNKNOWN, ""), and get_candidates(UNKNOWN) is the empty mapping.  The
\* patterns are searched for, not anchored at the start of the line.
C22_ScopeOrder ==
    /\ (phase \in {"scoped", "candidates"} /\ answer.cls = "tuple") =>
           /\ answer.scope = ExpectedScope
           /\ answer.name = (IF ExpectedScope = "unknown" THEN <<>>
                             ELSE CursorWord)
    /\ (phase = "scoped" /\ answer.cls # "tuple") =>
           (answer.cls = "IndexError" /\ LineOfRow = None)
    /\ (phase = "candidates" /\ answer.scope = "unknown") => candidates = {}
    /\ (phase = "candidates" /\ answer.scope # "unknown") => candidates # {}

\* set(NA was classified at its end: SETTER with NA, though params_pattern
\* matches the text as well
C22_Witness ==
    /\ phase = "scoped"
    /\ source = <<"s", "e", "t", "(", "N", "A">>
    /\ row = 0
    /\ col = 6
    /\ GroupStart("params", BeforeCursor, 0) = 4
    /\ answer = ScopeResult("setter", <<"N", "A">>)

\* the threads that execute the body of the gated function or leave it
InBody ==
    {t \in DOMAIN pc :
        pc[t] \in {"body", "write", "trigger", "set", "exit_ok", "exit_err"}}

\* C23: the request gate admits at most one in-flight request: under every
\* interleaving at most one thread executes the body of a gated function,
\* that thread holds the lock, and the lock is released when the body has
\* returned or raised.
C23_OneInFlight ==
    /\ Cardinality(InBody) <= 1
    /\ \A t \in DOMAIN pc : t \in InBody <=> (t # 0 /\ lock = t)
    /\ \A t \in DOMAIN pc : pc[t] \in {"returned", "raised"} => lock # t

\* the body of one thread has raised and the lock was released; a second
\* thread, whose call overlapped the first, executes the body now, and a
\* third one was turned away
C23_Witness ==
    /\ pc[1] = "raised"
    /\ pc[2] = "body"
    /\ pc[3] = "dropped"
    /\ lock = 2
    /\ 1 \in met[2]

\* C24: overlapping requests are dropped, never queued: of two calls that
\* overlap in time at most one ever executes its body, and the other
\* returns None at once: no call waits for the lock.
C24_DroppedNotQueued ==
    /\ \A t \in DOMAIN pc : ~(pc[t] = "acquire" /\ lock # 0)
    /\ blocked = {}
    /\ \A t \in DOMAIN met : \A u \in met[t] : ~({t, u} \subseteq ran)

\* C25: access to the completion results slot is serialized: no worker
\* writes the slot between the callback's read and its clear, so no result
\* that a worker wrote is cleared without having been delivered.
C25_Serialized ==
    /\ pc[0] = "clear" => slot = got
    /\ lost = {}

\* C30: a CTest request eventually runs the tests: once _ctest has cleared
\* BUILD_EVENT and issued the build command, BUILD_EVENT is eventually set
\* and cmake_build.ctest is invoked, whatever the other commands that
\* share the call_once lock do.
C30_CtestRuns == (pc[0] = "wait") ~> (event /\ pc[0] = "tested")

====
